---------------------------- MODULE Spec2Model ----------------------------
(***************************************************************************)
(* A model of the roestbak control daemon: the evdev reader with its       *)
(* SYN_DROPPED recovery, the gamepad detector and orchestrator, the input  *)
(* interpreter, the PCA9685 locomotion controller, the signal manager and  *)
(* the fixed-interval run loop.                                            *)
(*                                                                         *)
(* f64 values are modelled as exact rationals [n, d] (d > 0).  A search    *)
(* over every raw stick value and every pair of raw trigger values shows   *)
(* that the f64 computation of the code and the exact one agree on every   *)
(* deadzone decision and on every OFF count written to the PCA9685.        *)
(***************************************************************************)
EXTENDS Integers, Sequences, FiniteSets, TLC

VARIABLES
    pc,                           \* position of the process in main / start_runloop
    clock,                        \* CLOCK_MONOTONIC, in model time units
    start_of_upcoming_iteration,  \* runloop.rs: the deadline
    blockResult,                  \* what the last block() call returned
    exitCode,                     \* -1 while the process runs
    sigPending,                   \* records readable on the signalfd
    files,                        \* names present in /dev/input/
    inotifyQ,                     \* records readable on the inotify descriptor
    evq,                          \* input_event records readable on the gamepad descriptor
    readerGone,                   \* the device behind the held descriptor was removed
    gamepad_devices,              \* GamepadDetector.gamepad_devices
    current_gamepad,              \* AnyGamepad.current_gamepad
    state,                        \* GamepadInputInterpreter.state
    command,                      \* the LocomotionCommand of the current tick
    i2cLog,                       \* register writes of the current tick / execution
    tick,                         \* what the current tick has observed and done
    fed,                          \* every input_event a reader has consumed, in order
    delivered,                    \* every event a reader handed to its handler
    sched,                        \* the last scheduling decision of start_runloop
    prevExec,                     \* the previous execute_command and its writes
    watching,                     \* the inotify watch on the folder is installed
    det,                          \* what the detector has been handed and has returned
    initLog,                      \* register writes and delays of PCA9685Driver::new
    call                          \* the call of a function on its own: arguments and result

vars == <<pc, clock, start_of_upcoming_iteration, blockResult, exitCode,
          sigPending, files, inotifyQ, evq, readerGone, gamepad_devices,
          current_gamepad, state, command, i2cLog, tick, fed, delivered,
          sched, prevExec, watching, det, initLog, call>>

-----------------------------------------------------------------------------
(* Bounds of the model.                                                    *)

\* input_event records the kernel holds unread for one reader
MaxEvq == 2
\* input_event records one reader consumes over its life
MaxFed == 5
\* the commands of the PWM specification are the multiples of 1/GridDen
GridDen == 4
\* the monotonic clock advances in steps of ClockStep ms and stops at MaxTime ms
ClockStep == 10
MaxTime == 50
\* records the inotify queue holds before the kernel reports an overflow
MaxQueuedEvents == 2
\* inotify records that fit into the buffer of one read
InotifyBufferRecords == 2
\* inotify records one detector consumes over its life
MaxFolderRecords == 4
\* the highest channel number set_pwm_on_percentage is called with
MaxChannel == 17
\* events handed to the interpreter over the calls on record
MaxHandled == 4
\* signal records waiting on the descriptor
MaxPendingRecords == 4
\* read_events calls made in search of a device that opens
MaxAttempts == 8

-----------------------------------------------------------------------------
(* Exact rationals standing for f64.                                       *)

\* no function is called on its own
NoCall == [fn |-> "none"]

Rat(n, d) == [n |-> n, d |-> d]
Zero == Rat(0, 1)
One == Rat(1, 1)

Abs(x) == IF x < 0 THEN -x ELSE x
Min(a, b) == IF a < b THEN a ELSE b

RECURSIVE GCD(_, _)
GCD(a, b) == IF b = 0 THEN a ELSE GCD(b, a % b)

\* the same number with coprime numerator and denominator
Reduce(r) == LET g == GCD(Abs(r.n), r.d) IN Rat(r.n \div g, r.d \div g)

RatSub(a, b) ==
    IF a.d = b.d THEN Reduce(Rat(a.n - b.n, a.d))
    ELSE Reduce(Rat(a.n * b.d - b.n * a.d, a.d * b.d))
RatAdd(a, b) == RatSub(a, Rat(-b.n, b.d))
RatMul(a, b) == LET x == Reduce(Rat(a.n, b.d))
                    y == Reduce(Rat(b.n, a.d))
                IN  Reduce(Rat(x.n * y.n, x.d * y.d))
RatAbs(a) == Rat(Abs(a.n), a.d)
RatLess(a, b) == a.n * b.d < b.n * a.d
RatLeq(a, b) == a.n * b.d <= b.n * a.d
RatEq(a, b) == a.n * b.d = b.n * a.d

\* f64::round of a non-negative value: to the nearest integer, halves away from zero
RatRound(a) == (2 * a.n + a.d) \div (2 * a.d)

-----------------------------------------------------------------------------
(* gamepad.rs: event codes and decoding.                                   *)

EV_SYN == 0
EV_KEY == 1
EV_ABS == 3
SYN_REPORT == 0
SYN_DROPPED == 3
BTN_A == 304
BTN_B == 305
BTN_X == 307
BTN_Y == 308
BTN_TL == 310
BTN_TR == 311
BTN_SELECT == 314
BTN_START == 315
BTN_MODE == 316
BTN_THUMBL == 317
BTN_THUMBR == 318
ABS_X == 0
ABS_Y == 1
ABS_Z == 2
ABS_RX == 3
ABS_RY == 4
ABS_RZ == 5
ABS_HAT0X == 16
ABS_HAT0Y == 17
NUMBER_OF_EVENTS_IN_BUFFER == 256

DEADZONE_THRESHOLD == Rat(15, 100)

\* a libc::input_event, without its timestamp
InputEvent(t, c, v) == [type |-> t, code |-> c, value |-> v]

\* Option::None of a GamepadEvent
NoEvent == [kind |-> "None"]
ButtonPressed(b) == [kind |-> "ButtonPressed", button |-> b]
StickAdjusted(s, a, v) == [kind |-> "StickAdjusted", stick |-> s, axis |-> a, value |-> v]
TriggerAdjusted(t, v) == [kind |-> "TriggerAdjusted", trigger |-> t, value |-> v]
DpadAdjusted(a, v) == [kind |-> "DpadAdjusted", axis |-> a, value |-> v]
Disconnected == [kind |-> "Disconnected"]

apply_deadzone(value) ==
    IF RatLess(RatAbs(value), DEADZONE_THRESHOLD) THEN Zero ELSE value

\* a stick decoder that scales both directions by 32767
create_stick_eventSymmetric(stick, axis, value) ==
    LET v == IF value <= -32768 THEN Rat(-1, 1)
             ELSE IF value >= 32767 THEN One
             ELSE apply_deadzone(Rat(value, 32767))
    IN  StickAdjusted(stick, axis, v)

create_stick_event(stick, axis, value) ==
    LET v == IF value <= -32768 THEN Rat(-1, 1)
             ELSE IF value >= 32767 THEN One
             ELSE apply_deadzone(IF value < 0 THEN Rat(value, 32768)
                                              ELSE Rat(value, 32767))
    IN  StickAdjusted(stick, axis, v)

\* a trigger decoder without the dead zone
create_trigger_eventNoDeadzone(trigger, value) ==
    LET v == IF value <= 0 THEN Zero
             ELSE IF value >= 1023 THEN One
             ELSE Rat(value, 1023)
    IN  TriggerAdjusted(trigger, v)

create_trigger_event(trigger, value) ==
    LET v == IF value <= 0 THEN Zero
             ELSE IF value >= 1023 THEN One
             ELSE apply_deadzone(Rat(value, 1023))
    IN  TriggerAdjusted(trigger, v)

create_dpad_event(axis, value) ==
    LET v == IF value <= -1 THEN Rat(-1, 1)
             ELSE IF value >= 1 THEN One
             ELSE Zero
    IN  DpadAdjusted(axis, v)

\* a key decoder that also reports the autorepeat of a held key
process_key_eventOnRepeat(code, value) ==
    IF value = 0 THEN NoEvent
    ELSE CASE code = BTN_A -> ButtonPressed("A")
           [] code = BTN_B -> ButtonPressed("B")
           [] code = BTN_X -> ButtonPressed("X")
           [] code = BTN_Y -> ButtonPressed("Y")
           [] code = BTN_TL -> ButtonPressed("TL")
           [] code = BTN_TR -> ButtonPressed("TR")
           [] code = BTN_SELECT -> ButtonPressed("SELECT")
           [] code = BTN_START -> ButtonPressed("START")
           [] code = BTN_MODE -> ButtonPressed("MODE")
           [] code = BTN_THUMBL -> ButtonPressed("THUMBL")
           [] code = BTN_THUMBR -> ButtonPressed("THUMBR")
           [] OTHER -> NoEvent

process_key_event(code, value) ==
    IF value # 1 THEN NoEvent
    ELSE CASE code = BTN_A -> ButtonPressed("A")
           [] code = BTN_B -> ButtonPressed("B")
           [] code = BTN_X -> ButtonPressed("X")
           [] code = BTN_Y -> ButtonPressed("Y")
           [] code = BTN_TL -> ButtonPressed("TL")
           [] code = BTN_TR -> ButtonPressed("TR")
           [] code = BTN_SELECT -> ButtonPressed("SELECT")
           [] code = BTN_START -> ButtonPressed("START")
           [] code = BTN_MODE -> ButtonPressed("MODE")
           [] code = BTN_THUMBL -> ButtonPressed("THUMBL")
           [] code = BTN_THUMBR -> ButtonPressed("THUMBR")
           [] OTHER -> NoEvent

process_absolute_event(code, value) ==
    CASE code = ABS_X -> create_stick_event("Left", "Horizontal", value)
      [] code = ABS_Y -> create_stick_event("Left", "Vertical", value)
      [] code = ABS_RX -> create_stick_event("Right", "Horizontal", value)
      [] code = ABS_RY -> create_stick_event("Right", "Vertical", value)
      [] code = ABS_Z -> create_trigger_event("Left", value)
      [] code = ABS_RZ -> create_trigger_event("Right", value)
      [] code = ABS_HAT0X -> create_dpad_event("Horizontal", value)
      [] code = ABS_HAT0Y -> create_dpad_event("Vertical", value)
      [] OTHER -> NoEvent

-----------------------------------------------------------------------------
(* gamepad.rs: Gamepad, the reader.                                        *)

\* Option::None of a Gamepad
NoGamepad == [held |-> FALSE]

\* Gamepad::new on a successful open
Gamepad_new(path) == [held |-> TRUE, path |-> path, recovering_from_dropped |-> FALSE]

\* What read(2) on the non-blocking gamepad descriptor returns.
KernelRead(q, gone) ==
    IF gone THEN [kind |-> "error", events |-> <<>>]
    ELSE IF q = <<>> THEN [kind |-> "eagain", events |-> <<>>]
    ELSE [kind |-> "data",
          events |-> SubSeq(q, 1, Min(Len(q), NUMBER_OF_EVENTS_IN_BUFFER))]

\* a body that lets events through while the reader is recovering
ReadLoopBodyLeaky(recovering, event) ==
    LET decoded == CASE event.type = EV_KEY -> process_key_event(event.code, event.value)
                     [] event.type = EV_ABS -> process_absolute_event(event.code, event.value)
                     [] OTHER -> NoEvent
    IN  IF recovering
        THEN IF event.type = EV_SYN /\ event.code = SYN_REPORT
             THEN [recovering |-> FALSE, event |-> NoEvent]
             ELSE [recovering |-> TRUE, event |-> decoded]
        ELSE IF event.type = EV_SYN /\ event.code = SYN_DROPPED
             THEN [recovering |-> TRUE, event |-> NoEvent]
             ELSE [recovering |-> FALSE, event |-> decoded]

\* a body that stays in recovery past the SYN_REPORT, until the next event
ReadLoopBodySticky(recovering, event) ==
    LET decoded == CASE event.type = EV_KEY -> process_key_event(event.code, event.value)
                     [] event.type = EV_ABS -> process_absolute_event(event.code, event.value)
                     [] OTHER -> NoEvent
    IN  IF recovering
        THEN IF event.type = EV_SYN
             THEN [recovering |-> TRUE, event |-> NoEvent]
             ELSE [recovering |-> FALSE, event |-> NoEvent]
        ELSE IF event.type = EV_SYN /\ event.code = SYN_DROPPED
             THEN [recovering |-> TRUE, event |-> NoEvent]
             ELSE [recovering |-> FALSE, event |-> decoded]

\* One pass of the loop over the events read: the new flag and the event handed
\* to the handler, if any.
ReadLoopBody(recovering, event) ==
    IF recovering
    THEN IF event.type = EV_SYN /\ event.code = SYN_REPORT
         THEN [recovering |-> FALSE, event |-> NoEvent]
         ELSE [recovering |-> TRUE, event |-> NoEvent]
    ELSE IF event.type = EV_SYN /\ event.code = SYN_DROPPED
         THEN [recovering |-> TRUE, event |-> NoEvent]
         ELSE [recovering |-> FALSE,
               event |-> CASE event.type = EV_KEY ->
                                process_key_event(event.code, event.value)
                           [] event.type = EV_ABS ->
                                process_absolute_event(event.code, event.value)
                           [] OTHER -> NoEvent]

\* The loop over buffer[0..events_read]; an emitted event carries the index
\* (within this read) of the input_event it was decoded from.
RECURSIVE ReadLoop(_, _, _, _)
ReadLoop(recovering, events, i, emitted) ==
    IF i > Len(events) THEN [recovering |-> recovering, emitted |-> emitted]
    ELSE LET step == ReadLoopBody(recovering, events[i])
         IN  ReadLoop(step.recovering, events, i + 1,
                      IF step.event.kind = "None" THEN emitted
                      ELSE Append(emitted, [idx |-> i, event |-> step.event]))

\* Gamepad::read_events, given what the read returned.
Gamepad_read_events(self, rd) ==
    CASE rd.kind = "eagain" -> [ok |-> TRUE, self |-> self, emitted |-> <<>>]
      [] rd.kind = "error" -> [ok |-> FALSE, self |-> self, emitted |-> <<>>]
      [] OTHER ->
           LET r == ReadLoop(self.recovering_from_dropped, rd.events, 1, <<>>)
           IN  [ok |-> TRUE,
                self |-> [self EXCEPT !.recovering_from_dropped = r.recovering],
                emitted |-> r.emitted]

-----------------------------------------------------------------------------
(* folder_monitor.rs: FolderMonitor.                                       *)

\* A file name is the sequence of its characters; a path is the watched folder
\* joined with a name.
GAMEPAD_DEVICE_FOLDER == "/dev/input/"
PathJoin(folder, name) == [folder |-> folder, name |-> name]
file_name(path) == path.name

\* An inotify record: the flags set in its mask, and its name field (empty when
\* the record carries no name).
InotifyRecord(mask, name) == [mask |-> mask, name |-> name]
OverflowRecord == InotifyRecord({"IN_Q_OVERFLOW"}, <<>>)

Added(path) == [kind |-> "Added", path |-> path]
Removed(path) == [kind |-> "Removed", path |-> path]
AttributesChanged(path) == [kind |-> "AttributesChanged", path |-> path]
EventQueueOverflowed == [kind |-> "EventQueueOverflowed"]

\* What read(2) on the non-blocking inotify descriptor returns: the queued
\* records that fit into the buffer, oldest first.
KernelInotifyRead(q, fails) ==
    IF fails THEN [kind |-> "error", records |-> <<>>]
    ELSE IF q = <<>> THEN [kind |-> "eagain", records |-> <<>>]
    ELSE [kind |-> "data",
          records |-> SubSeq(q, 1, Min(Len(q), InotifyBufferRecords))]

\* a record parser that looks for a removal before an addition
RecordEventsRemovedFirst(folder_path, rec) ==
    LET overflow == IF "IN_Q_OVERFLOW" \in rec.mask
                    THEN <<EventQueueOverflowed>> ELSE <<>>
        file_path == PathJoin(folder_path, rec.name)
        named == IF Len(rec.name) > 0
                 THEN IF rec.mask \cap {"IN_DELETE", "IN_MOVED_FROM"} # {}
                      THEN <<Removed(file_path)>>
                      ELSE IF rec.mask \cap {"IN_CREATE", "IN_MOVED_TO"} # {}
                      THEN <<Added(file_path)>>
                      ELSE IF "IN_ATTRIB" \in rec.mask
                      THEN <<AttributesChanged(file_path)>>
                      ELSE <<>>
                 ELSE <<>>
    IN  overflow \o named

\* The folder events one record delivers to the block, in order.
RecordEvents(folder_path, rec) ==
    LET overflow == IF "IN_Q_OVERFLOW" \in rec.mask
                    THEN <<EventQueueOverflowed>> ELSE <<>>
        file_path == PathJoin(folder_path, rec.name)
        named == IF Len(rec.name) > 0
                 THEN IF rec.mask \cap {"IN_CREATE", "IN_MOVED_TO"} # {}
                      THEN <<Added(file_path)>>
                      ELSE IF rec.mask \cap {"IN_DELETE", "IN_MOVED_FROM"} # {}
                      THEN <<Removed(file_path)>>
                      ELSE IF "IN_ATTRIB" \in rec.mask
                      THEN <<AttributesChanged(file_path)>>
                      ELSE <<>>
                 ELSE <<>>
    IN  overflow \o named

RECURSIVE RecordsEvents(_, _)
RecordsEvents(folder_path, records) ==
    IF records = <<>> THEN <<>>
    ELSE RecordEvents(folder_path, Head(records))
             \o RecordsEvents(folder_path, Tail(records))

\* mem::size_of::<libc::inotify_event>()
INOTIFY_EVENT_BASESIZE == 16

\* inotify_event.len of a record: 0 without a name, else the name and its NUL,
\* padded with NULs to a multiple of the header size
NameFieldLength(name) ==
    IF name = <<>> THEN 0
    ELSE ((Len(name) + 1 + INOTIFY_EVENT_BASESIZE - 1) \div INOTIFY_EVENT_BASESIZE)
             * INOTIFY_EVENT_BASESIZE

\* the bytes a read of these records returns
RECURSIVE BytesOf(_)
BytesOf(records) ==
    IF records = <<>> THEN 0
    ELSE INOTIFY_EVENT_BASESIZE + NameFieldLength(Head(records).name)
             + BytesOf(Tail(records))

\* the record that starts at a byte offset of the buffer
RecordAt(records, offset) ==
    records[CHOOSE i \in 1..Len(records) : BytesOf(SubSeq(records, 1, i - 1)) = offset]

\* while offset < bytes_read: the events handed to the block from the offset
\* on, and the offset the loop ends with; ParseFrom is the body of the loop on
\* the record it has found at the offset, whose events go to the block before
\* those of the turns that follow
RECURSIVE ParseLoop(_, _, _, _), ParseFrom(_, _, _, _, _)
ParseFrom(folder_path, records, offset, bytes_read, inotify_event) ==
    [ParseLoop(folder_path, records,
               offset + INOTIFY_EVENT_BASESIZE + NameFieldLength(inotify_event.name),
               bytes_read)
        EXCEPT !.events = RecordEvents(folder_path, inotify_event) \o @]
ParseLoop(folder_path, records, offset, bytes_read) ==
    IF ~(offset < bytes_read)
    THEN [ok |-> TRUE, events |-> <<>>, offset |-> offset, bytes_read |-> bytes_read]
    ELSE ParseFrom(folder_path, records, offset, bytes_read, RecordAt(records, offset))

\* a process_filesystem_events that treats every failed read like EAGAIN
process_filesystem_eventsSwallowing(folder_path, rd) ==
    CASE rd.kind = "eagain" -> [ok |-> TRUE, events |-> <<>>]
      [] rd.kind = "error" -> [ok |-> TRUE, events |-> <<>>]
      [] OTHER -> [ok |-> TRUE, events |-> RecordsEvents(folder_path, rd.records)]

\* FolderMonitor::process_filesystem_events, given what the read returned: whether
\* it returns Ok, and the events it hands to the block.
process_filesystem_events(folder_path, rd) ==
    CASE rd.kind = "eagain" -> [ok |-> TRUE, events |-> <<>>]
      [] rd.kind = "error" -> [ok |-> FALSE, events |-> <<>>]
      [] OTHER -> ParseLoop(folder_path, rd.records, 0, BytesOf(rd.records))

-----------------------------------------------------------------------------
(* detection.rs: GamepadDetector.                                          *)

Digits == {"0", "1", "2", "3", "4", "5", "6", "7", "8", "9"}
DevicePrefix == <<"j", "s", "-", "e", "v", "d", "e", "v">>

\* GAMEPAD_DEVICE_REGEX, ^js-evdev\d*$, on a name
GAMEPAD_DEVICE_REGEX_is_match(name) ==
    /\ Len(name) >= Len(DevicePrefix)
    /\ SubSeq(name, 1, Len(DevicePrefix)) = DevicePrefix
    /\ \A i \in (Len(DevicePrefix) + 1)..Len(name) : name[i] \in Digits

\* fs maps each name to "absent", "chr" (a device file), "locked" (a device
\* file that cannot be opened yet) or "dir"
is_gamepad_device_file(fs, path) ==
    /\ fs[file_name(path)] # "dir"
    /\ GAMEPAD_DEVICE_REGEX_is_match(file_name(path))

Contains(seq, x) == \E i \in 1..Len(seq) : seq[i] = x
Retain(seq, Keep(_)) == SelectSeq(seq, Keep)

\* the block without the check that the path is not queued yet
DetectorBlockAppending(fs, devices, event) ==
    CASE event.kind = "Added" ->
           IF is_gamepad_device_file(fs, event.path)
           THEN Append(devices, event.path)
           ELSE devices
      [] event.kind = "Removed" ->
           IF is_gamepad_device_file(fs, event.path)
           THEN LET Keep(element) == element # event.path IN Retain(devices, Keep)
           ELSE devices
      [] event.kind = "AttributesChanged" -> devices
      [] OTHER -> <<>>

\* the block with push_front in place of push_back
DetectorBlockPrepending(fs, devices, event) ==
    CASE event.kind = "Added" ->
           IF is_gamepad_device_file(fs, event.path) /\ ~Contains(devices, event.path)
           THEN <<event.path>> \o devices
           ELSE devices
      [] event.kind = "Removed" ->
           IF is_gamepad_device_file(fs, event.path)
           THEN LET Keep(element) == element # event.path IN Retain(devices, Keep)
           ELSE devices
      [] event.kind = "AttributesChanged" -> devices
      [] OTHER -> <<>>

\* the block without the arm that clears the queue
DetectorBlockIgnoringOverflow(fs, devices, event) ==
    CASE event.kind = "Added" ->
           IF is_gamepad_device_file(fs, event.path) /\ ~Contains(devices, event.path)
           THEN Append(devices, event.path)
           ELSE devices
      [] event.kind = "Removed" ->
           IF is_gamepad_device_file(fs, event.path)
           THEN LET Keep(element) == element # event.path IN Retain(devices, Keep)
           ELSE devices
      [] OTHER -> devices

\* the block treating a change of attributes as an addition
DetectorBlockRequeueing(fs, devices, event) ==
    CASE event.kind \in {"Added", "AttributesChanged"} ->
           IF is_gamepad_device_file(fs, event.path) /\ ~Contains(devices, event.path)
           THEN Append(devices, event.path)
           ELSE devices
      [] event.kind = "Removed" ->
           IF is_gamepad_device_file(fs, event.path)
           THEN LET Keep(element) == element # event.path IN Retain(devices, Keep)
           ELSE devices
      [] OTHER -> <<>>

\* the closure process_updates hands to the folder monitor, on one event
DetectorBlock(fs, devices, event) ==
    CASE event.kind = "Added" ->
           IF is_gamepad_device_file(fs, event.path) /\ ~Contains(devices, event.path)
           THEN Append(devices, event.path)
           ELSE devices
      [] event.kind = "Removed" ->
           IF is_gamepad_device_file(fs, event.path)
           THEN LET Keep(element) == element # event.path IN Retain(devices, Keep)
           ELSE devices
      [] event.kind = "AttributesChanged" -> devices
      [] OTHER -> <<>>

RECURSIVE DetectorFold(_, _, _)
DetectorFold(fs, devices, events) ==
    IF events = <<>> THEN devices
    ELSE DetectorFold(fs, DetectorBlock(fs, devices, Head(events)), Tail(events))

\* GamepadDetector::process_updates, given what the inotify read returned
process_updates(fs, devices, rd) ==
    LET r == process_filesystem_events(GAMEPAD_DEVICE_FOLDER, rd)
    IN  [ok |-> r.ok, devices |-> DetectorFold(fs, devices, r.events)]

\* Option::None of a path
NoPath == [some |-> FALSE]
SomePath(p) == [some |-> TRUE, path |-> p]

\* next_gamepad_device with rotate_right in place of rotate_left
next_gamepad_deviceRotatingRight(devices) ==
    LET rotated == IF Len(devices) > 1
                   THEN <<devices[Len(devices)]>> \o SubSeq(devices, 1, Len(devices) - 1)
                   ELSE devices
    IN  [devices |-> rotated,
         path |-> IF rotated = <<>> THEN NoPath ELSE SomePath(Head(rotated))]

\* GamepadDetector::next_gamepad_device: the queue afterwards and the path returned
\* a choice that hands out the head of the queue without rotating
next_gamepad_deviceHeadFirst(devices) ==
    [devices |-> devices,
     path |-> IF devices = <<>> THEN NoPath ELSE SomePath(Head(devices))]

next_gamepad_device(devices) ==
    LET rotated == IF Len(devices) > 1
                   THEN Append(Tail(devices), Head(devices)) ELSE devices
    IN  [devices |-> rotated,
         path |-> IF rotated = <<>> THEN NoPath ELSE SomePath(Head(rotated))]

\* GamepadDetector::new scanning the folder before the monitor is set up
DetectorNewStepsScanFirst == <<"scan", "watch">>

\* GamepadDetector::new: the folder monitor is set up, then the folder is scanned
DetectorNewSteps == <<"watch", "scan">>

\* what is recorded of a detector: the setup steps of GamepadDetector::new
\* taken, the queue the scan produced, the inotify records process_updates has
\* consumed, whether next_gamepad_device has been called since the scan, and
\* the calls of next_gamepad_device since the last process_updates (the queue
\* before the first of them, and what each returned)
NoDet == [steps |-> <<>>, base |-> <<>>, records |-> <<>>, batch |-> <<>>,
          called |-> FALSE,
          queueAt |-> <<>>, returned |-> <<>>]

-----------------------------------------------------------------------------
(* any_gamepad.rs: AnyGamepad, the orchestrator.                           *)

\* From<GamepadEvent> for AnyGamepadEvent
into(e) ==
    CASE e.kind = "ButtonPressed" -> ButtonPressed(e.button)
      [] e.kind = "StickAdjusted" -> StickAdjusted(e.stick, e.axis, e.value)
      [] e.kind = "TriggerAdjusted" -> TriggerAdjusted(e.trigger, e.value)
      [] e.kind = "DpadAdjusted" -> DpadAdjusted(e.axis, e.value)

IntoAll(emitted) == [i \in 1..Len(emitted) |-> into(emitted[i].event)]

\* open(2) of a device path: it needs the device file, and succeeds only once
\* its permissions allow (permits)
OpenSucceeds(fs, path, permits) == fs[file_name(path)] = "chr" /\ permits

\* a read_events that hands a failed read on to its caller
AnyGamepad_read_eventsPropagating(fs, devices, current, ird, permits, q, gone) ==
    LET upd == process_updates(fs, devices, ird)
        nx == next_gamepad_device(upd.devices)
        tries == ~current.held /\ nx.path.some
        opens == tries /\ OpenSucceeds(fs, nx.path.path, permits)
        gamepad == IF opens THEN Gamepad_new(nx.path.path) ELSE current
        rd == KernelRead(IF opens THEN <<>> ELSE q, gone)
        r == Gamepad_read_events(gamepad, rd)
    IN  IF ~upd.ok
        THEN [ok |-> FALSE, devices |-> upd.devices, current |-> current,
              events |-> <<>>, emitted |-> <<>>, read |-> "none", tried |-> NoPath,
              consumed |-> 0]
        ELSE [ok |-> ~gamepad.held \/ r.ok,
              devices |-> IF current.held THEN upd.devices ELSE nx.devices,
              current |-> IF gamepad.held THEN r.self ELSE gamepad,
              events |-> IF gamepad.held THEN IntoAll(r.emitted) ELSE <<>>,
              emitted |-> IF gamepad.held THEN r.emitted ELSE <<>>,
              read |-> IF gamepad.held THEN rd.kind ELSE "none",
              tried |-> IF tries THEN nx.path ELSE NoPath,
              consumed |-> IF gamepad.held THEN Len(rd.events) ELSE 0]

\* a read_events that asks the detector for the next device in every call
AnyGamepad_read_eventsAlwaysRotating(fs, devices, current, ird, permits, q, gone) ==
    LET upd == process_updates(fs, devices, ird)
        nx == next_gamepad_device(upd.devices)
        tries == nx.path.some
        opens == tries /\ OpenSucceeds(fs, nx.path.path, permits)
        gamepad == IF opens THEN Gamepad_new(nx.path.path) ELSE current
        rd == KernelRead(IF opens THEN <<>> ELSE q, gone)
        r == Gamepad_read_events(gamepad, rd)
    IN  IF ~upd.ok
        THEN [ok |-> FALSE, devices |-> upd.devices, current |-> current,
              events |-> <<>>, emitted |-> <<>>, read |-> "none", tried |-> NoPath,
              consumed |-> 0]
        ELSE [ok |-> TRUE,
              devices |-> nx.devices,
              current |-> IF gamepad.held
                          THEN IF r.ok THEN r.self ELSE NoGamepad
                          ELSE gamepad,
              events |-> IF gamepad.held
                         THEN IF r.ok THEN IntoAll(r.emitted) ELSE <<Disconnected>>
                         ELSE <<>>,
              emitted |-> IF gamepad.held /\ r.ok THEN r.emitted ELSE <<>>,
              read |-> IF gamepad.held THEN rd.kind ELSE "none",
              tried |-> IF tries THEN nx.path ELSE NoPath,
              consumed |-> IF gamepad.held THEN Len(rd.events) ELSE 0]

\* a read_events that lets go of its reader when the reader's path has left the
\* queue of the detector
AnyGamepad_read_eventsFollowingQueue(fs, devices, current, ird, permits, q, gone) ==
    LET upd == process_updates(fs, devices, ird)
        kept == IF current.held /\ ~Contains(upd.devices, current.path)
                THEN NoGamepad
                ELSE current
        nx == next_gamepad_device(upd.devices)
        tries == ~kept.held /\ nx.path.some
        opens == tries /\ OpenSucceeds(fs, nx.path.path, permits)
        gamepad == IF opens THEN Gamepad_new(nx.path.path) ELSE kept
        rd == KernelRead(IF opens THEN <<>> ELSE q, gone)
        r == Gamepad_read_events(gamepad, rd)
    IN  IF ~upd.ok
        THEN [ok |-> FALSE, devices |-> upd.devices, current |-> current,
              events |-> <<>>, emitted |-> <<>>, read |-> "none", tried |-> NoPath,
              consumed |-> 0]
        ELSE [ok |-> TRUE,
              devices |-> IF kept.held THEN upd.devices ELSE nx.devices,
              current |-> IF gamepad.held
                          THEN IF r.ok THEN r.self ELSE NoGamepad
                          ELSE gamepad,
              events |-> IF gamepad.held
                         THEN IF r.ok THEN IntoAll(r.emitted) ELSE <<Disconnected>>
                         ELSE <<>>,
              emitted |-> IF gamepad.held /\ r.ok THEN r.emitted ELSE <<>>,
              read |-> IF gamepad.held THEN rd.kind ELSE "none",
              tried |-> IF tries THEN nx.path ELSE NoPath,
              consumed |-> IF gamepad.held THEN Len(rd.events) ELSE 0]

\* AnyGamepad::read_events, given what the inotify read returns (ird), whether
\* the permissions of a device file allow opening it (permits), and the kernel
\* state of the held descriptor (q, gone).  The result holds the new detector
\* queue and reader, the events handed to the handler (events; emitted is the
\* reader's part of them with the index of the input_event each came from), the
\* outcome of the reader's read, the path an open was tried on, and the number
\* of input_events consumed.
AnyGamepad_read_events(fs, devices, current, ird, permits, q, gone) ==
    LET upd == process_updates(fs, devices, ird)
        nx == next_gamepad_device(upd.devices)
        tries == ~current.held /\ nx.path.some
        opens == tries /\ OpenSucceeds(fs, nx.path.path, permits)
        gamepad == IF opens THEN Gamepad_new(nx.path.path) ELSE current
        \* a descriptor just opened has nothing queued yet; its device can be
        \* gone by the time of the read
        rd == KernelRead(IF opens THEN <<>> ELSE q, gone)
        r == Gamepad_read_events(gamepad, rd)
    IN  IF ~upd.ok
        THEN [ok |-> FALSE, devices |-> upd.devices, current |-> current,
              events |-> <<>>, emitted |-> <<>>, read |-> "none", tried |-> NoPath,
              consumed |-> 0]
        ELSE [ok |-> TRUE,
              devices |-> IF current.held THEN upd.devices ELSE nx.devices,
              current |-> IF gamepad.held
                          THEN IF r.ok THEN r.self ELSE NoGamepad
                          ELSE gamepad,
              events |-> IF gamepad.held
                         THEN IF r.ok THEN IntoAll(r.emitted) ELSE <<Disconnected>>
                         ELSE <<>>,
              emitted |-> IF gamepad.held /\ r.ok THEN r.emitted ELSE <<>>,
              read |-> IF gamepad.held THEN rd.kind ELSE "none",
              tried |-> IF tries THEN nx.path ELSE NoPath,
              consumed |-> IF gamepad.held THEN Len(rd.events) ELSE 0]

-----------------------------------------------------------------------------
(* input_interpreter.rs: GamepadInputInterpreter.                          *)

GamepadState_new == [right_trigger |-> Zero, left_trigger |-> Zero,
                     left_stick_horizontal |-> Zero]

\* a handler that ignores Disconnected
InterpreterHandlerKeeping(st, event) ==
    CASE event.kind = "StickAdjusted" ->
           IF event.stick = "Left" /\ event.axis = "Horizontal"
           THEN [st EXCEPT !.left_stick_horizontal = event.value] ELSE st
      [] event.kind = "TriggerAdjusted" ->
           IF event.trigger = "Left"
           THEN [st EXCEPT !.left_trigger = event.value]
           ELSE [st EXCEPT !.right_trigger = event.value]
      [] OTHER -> st

\* a handler that keeps the first value reported for a field
InterpreterHandlerFirstWins(st, event) ==
    CASE event.kind = "StickAdjusted" ->
           IF event.stick = "Left" /\ event.axis = "Horizontal"
              /\ st.left_stick_horizontal = Zero
           THEN [st EXCEPT !.left_stick_horizontal = event.value] ELSE st
      [] event.kind = "TriggerAdjusted" ->
           IF event.trigger = "Left"
           THEN IF st.left_trigger = Zero
                THEN [st EXCEPT !.left_trigger = event.value] ELSE st
           ELSE IF st.right_trigger = Zero
                THEN [st EXCEPT !.right_trigger = event.value] ELSE st
      [] event.kind = "Disconnected" -> GamepadState_new
      [] OTHER -> st

\* a handler that takes the direction from any stick axis
InterpreterHandlerAnyStick(st, event) ==
    CASE event.kind = "StickAdjusted" ->
           [st EXCEPT !.left_stick_horizontal = event.value]
      [] event.kind = "TriggerAdjusted" ->
           IF event.trigger = "Left"
           THEN [st EXCEPT !.left_trigger = event.value]
           ELSE [st EXCEPT !.right_trigger = event.value]
      [] event.kind = "Disconnected" -> GamepadState_new
      [] OTHER -> st

\* the closure process_input hands to read_events, on one event
InterpreterHandler(st, event) ==
    CASE event.kind = "StickAdjusted" ->
           IF event.stick = "Left" /\ event.axis = "Horizontal"
           THEN [st EXCEPT !.left_stick_horizontal = event.value] ELSE st
      [] event.kind = "TriggerAdjusted" ->
           IF event.trigger = "Left"
           THEN [st EXCEPT !.left_trigger = event.value]
           ELSE [st EXCEPT !.right_trigger = event.value]
      [] event.kind = "Disconnected" -> GamepadState_new
      [] OTHER -> st

RECURSIVE InterpreterFold(_, _)
InterpreterFold(st, events) ==
    IF events = <<>> THEN st
    ELSE InterpreterFold(InterpreterHandler(st, Head(events)), Tail(events))

-----------------------------------------------------------------------------
(* controller.rs: LocomotionCommand and LocomotionController.              *)

\* the value of command before a tick has computed one
NoCommand == [valid |-> FALSE]

\* LocomotionCommand::new; valid is FALSE where an assertion fails
LocomotionCommand_new(throttle, direction) ==
    [valid |-> /\ RatLeq(Rat(-1, 1), throttle) /\ RatLeq(throttle, One)
               /\ RatLeq(Rat(-1, 1), direction) /\ RatLeq(direction, One),
     throttle |-> throttle,
     direction |-> direction]

\* a process_input that adds the two triggers
CommandOfStateAddingTriggers(st) ==
    LocomotionCommand_new(RatAdd(st.right_trigger, st.left_trigger),
                          st.left_stick_horizontal)

\* GamepadInputInterpreter::process_input after the events are drained
CommandOfState(st) ==
    LocomotionCommand_new(RatSub(st.right_trigger, st.left_trigger),
                          st.left_stick_horizontal)

PCA9685_THROTTLE_CHANNEL == 0
PCA9685_STEERING_CHANNEL == 1
PWM_FREQUENCY == 50
PWM_MIN_ON_PCT == RatMul(Rat(10, 10), Rat(PWM_FREQUENCY, 1000))
PWM_CENTER_ON_PCT == RatMul(Rat(15, 10), Rat(PWM_FREQUENCY, 1000))
PWM_MAX_ON_PCT == RatMul(Rat(20, 10), Rat(PWM_FREQUENCY, 1000))


\* a mapping that spans the whole pulse range on each side of the centre
locomotion_value_to_pwm_on_percentageWide(value) ==
    IF RatEq(value, Zero) THEN PWM_CENTER_ON_PCT
    ELSE IF RatLess(Zero, value)
    THEN RatSub(PWM_CENTER_ON_PCT,
                RatMul(RatSub(PWM_MAX_ON_PCT, PWM_MIN_ON_PCT), value))
    ELSE RatAdd(PWM_CENTER_ON_PCT,
                RatMul(RatSub(PWM_MAX_ON_PCT, PWM_MIN_ON_PCT), RatAbs(value)))

\* a mapping with the polarity reversed
locomotion_value_to_pwm_on_percentageReversed(value) ==
    IF RatEq(value, Zero) THEN PWM_CENTER_ON_PCT
    ELSE IF RatLess(Zero, value)
    THEN RatAdd(PWM_CENTER_ON_PCT,
                RatMul(RatSub(PWM_MAX_ON_PCT, PWM_CENTER_ON_PCT), value))
    ELSE RatSub(PWM_CENTER_ON_PCT,
                RatMul(RatSub(PWM_CENTER_ON_PCT, PWM_MIN_ON_PCT), RatAbs(value)))

locomotion_value_to_pwm_on_percentage(value) ==
    IF RatEq(value, Zero) THEN PWM_CENTER_ON_PCT
    ELSE IF RatLess(Zero, value)
    THEN RatSub(PWM_CENTER_ON_PCT,
                RatMul(RatSub(PWM_CENTER_ON_PCT, PWM_MIN_ON_PCT), value))
    ELSE RatAdd(PWM_CENTER_ON_PCT,
                RatMul(RatSub(PWM_MAX_ON_PCT, PWM_CENTER_ON_PCT), RatAbs(value)))

-----------------------------------------------------------------------------
(* pca9685.rs: PCA9685Driver.                                              *)

REGISTER_LED0_ON_L == 6
REGISTER_LED0_ON_H == 7
REGISTER_LED0_OFF_L == 8
REGISTER_LED0_OFF_H == 9
\* the largest count of the 12-bit counter, the factor in set_pwm_on_percentage
PWM_FULL_COUNT == 4095



\* one i2c_device.write_byte_data(command, value)
Write(reg, value) == [reg |-> reg, value |-> value]

\* a set_pwm that writes the high byte of each count before the low byte
set_pwmHighByteFirst(channel, on, off) ==
    [panic |-> ~(channel < 16),
     writes |-> IF ~(channel < 16) THEN <<>>
                ELSE <<Write(REGISTER_LED0_ON_H + 4 * channel, (on \div 256) % 256),
                       Write(REGISTER_LED0_ON_L + 4 * channel, on % 256),
                       Write(REGISTER_LED0_OFF_H + 4 * channel, (off \div 256) % 256),
                       Write(REGISTER_LED0_OFF_L + 4 * channel, off % 256)>>]

\* PCA9685Driver::set_pwm: the register writes it issues, in order; panic where
\* its assertion fails
set_pwm(channel, on, off) ==
    [panic |-> ~(channel < 16),
     writes |-> IF ~(channel < 16) THEN <<>>
                ELSE <<Write(REGISTER_LED0_ON_L + 4 * channel, on % 256),
                       Write(REGISTER_LED0_ON_H + 4 * channel, (on \div 256) % 256),
                       Write(REGISTER_LED0_OFF_L + 4 * channel, off % 256),
                       Write(REGISTER_LED0_OFF_H + 4 * channel, (off \div 256) % 256)>>]

\* PCA9685Driver::set_pwm_on_percentage
set_pwm_on_percentage(channel, percentage) ==
    IF ~(RatLeq(Zero, percentage) /\ RatLeq(percentage, One))
    THEN [panic |-> TRUE, writes |-> <<>>]
    ELSE set_pwm(channel, 0, RatRound(RatMul(percentage, Rat(PWM_FULL_COUNT, 1))))

REGISTER_MODE1 == 0
REGISTER_MODE2 == 1
REGISTER_PRESCALE == 254
MODE2_OUTDRV_FLAG == 4
MODE1_ALLCALL_FLAG == 1
MODE1_SLEEP_FLAG == 16
\* the frequency of the internal oscillator, in Hz
INTERNAL_OSCILLATOR_FREQUENCY == 25000000
\* the pause after the wake-up, in microseconds
WAKE_DELAY_MICROS == 500

\* a | b on u8
RECURSIVE BitOrFrom(_, _, _)
BitOrFrom(a, b, i) ==
    IF i > 7 THEN 0
    ELSE (IF (a \div 2^i) % 2 = 1 \/ (b \div 2^i) % 2 = 1 THEN 2^i ELSE 0)
             + BitOrFrom(a, b, i + 1)
BitOr(a, b) == BitOrFrom(a, b, 0)

\* std::thread::sleep(Duration::from_micros(us)), as an entry of the log
Sleep(us) == [sleep |-> us]

\* a prescale_value_for_frequency that cuts the quotient off instead of rounding
prescale_value_for_frequencyTruncating(pwm_frequency) ==
    IF pwm_frequency = 0
    THEN [panic |-> TRUE, value |-> 0]
    ELSE LET prescale_value ==
                 (INTERNAL_OSCILLATOR_FREQUENCY \div (4096 * pwm_frequency)) - 1
         IN  [panic |-> ~(prescale_value >= 3 /\ prescale_value <= 255),
              value |-> prescale_value]

\* prescale_value_for_frequency: the value, and panic where an assertion fails.
\* The quotient by 0.0 is infinite and fails the second assertion.
prescale_value_for_frequency(pwm_frequency) ==
    IF pwm_frequency = 0
    THEN [panic |-> TRUE, value |-> 0]
    ELSE LET prescale_value ==
                 RatRound(Rat(INTERNAL_OSCILLATOR_FREQUENCY, 4096 * pwm_frequency)) - 1
         IN  [panic |-> ~(prescale_value >= 3 /\ prescale_value <= 255),
              value |-> prescale_value]

\* register writes of PCA9685Driver::new
DriverSetupWrites == 4

\* a PCA9685Driver::new that wakes the device before it sets the prescaler
PCA9685Driver_newWakingFirst(pwm_frequency, opens, okWrites) ==
    LET prescale == prescale_value_for_frequency(pwm_frequency)
        all == <<Write(REGISTER_MODE1, BitOr(MODE1_ALLCALL_FLAG, MODE1_SLEEP_FLAG)),
                 Write(REGISTER_MODE2, MODE2_OUTDRV_FLAG),
                 Write(REGISTER_MODE1, MODE1_ALLCALL_FLAG),
                 Write(REGISTER_PRESCALE, prescale.value)>>
        done == opens /\ okWrites >= Len(all)
    IN  [panic |-> opens /\ okWrites >= 2 /\ prescale.panic,
         ok |-> done,
         log |-> IF ~opens THEN <<>>
                 ELSE SubSeq(all, 1, Min(okWrites, Len(all)))
                          \o (IF done THEN <<Sleep(WAKE_DELAY_MICROS)>> ELSE <<>>)]

\* PCA9685Driver::new, where the device opens or not and the first okWrites
\* register writes succeed: what reached the bus, followed by the pause, and
\* whether the call returns Ok
PCA9685Driver_new(pwm_frequency, opens, okWrites) ==
    LET prescale == prescale_value_for_frequency(pwm_frequency)
        all == <<Write(REGISTER_MODE1, BitOr(MODE1_ALLCALL_FLAG, MODE1_SLEEP_FLAG)),
                 Write(REGISTER_MODE2, MODE2_OUTDRV_FLAG),
                 Write(REGISTER_PRESCALE, prescale.value),
                 Write(REGISTER_MODE1, MODE1_ALLCALL_FLAG)>>
        \* the prescaler is computed once the first two writes are through
        panics == opens /\ okWrites >= 2 /\ prescale.panic
        done == opens /\ ~panics /\ okWrites >= Len(all)
    IN  [panic |-> panics,
         ok |-> done,
         log |-> IF ~opens THEN <<>>
                 ELSE SubSeq(all, 1, IF panics THEN 2 ELSE Min(okWrites, Len(all)))
                          \o (IF done THEN <<Sleep(WAKE_DELAY_MICROS)>> ELSE <<>>)]

\* an execute_command with the two channels exchanged
execute_commandSwapped(cmd, okWrites) ==
    LET t == set_pwm_on_percentage(PCA9685_STEERING_CHANNEL,
                 locomotion_value_to_pwm_on_percentage(cmd.throttle))
        s == set_pwm_on_percentage(PCA9685_THROTTLE_CHANNEL,
                 locomotion_value_to_pwm_on_percentage(cmd.direction))
        all == t.writes \o s.writes
    IN  [panic |-> t.panic \/ s.panic,
         ok |-> okWrites >= Len(all),
         log |-> SubSeq(all, 1, Min(okWrites, Len(all)))]

\* an execute_command that drops the results of its register writes
execute_commandUnchecked(cmd, okWrites) ==
    LET t == set_pwm_on_percentage(PCA9685_THROTTLE_CHANNEL,
                 locomotion_value_to_pwm_on_percentage(cmd.throttle))
        s == set_pwm_on_percentage(PCA9685_STEERING_CHANNEL,
                 locomotion_value_to_pwm_on_percentage(cmd.direction))
        all == t.writes \o s.writes
    IN  [panic |-> t.panic \/ s.panic,
         ok |-> TRUE,
         log |-> SubSeq(all, 1, Min(okWrites, Len(all)))]

\* an execute_command that steers only while the throttle is neutral
execute_commandSteeringAtRest(cmd, okWrites) ==
    LET t == set_pwm_on_percentage(PCA9685_THROTTLE_CHANNEL,
                 locomotion_value_to_pwm_on_percentage(cmd.throttle))
        s == set_pwm_on_percentage(PCA9685_STEERING_CHANNEL,
                 locomotion_value_to_pwm_on_percentage(
                     IF RatEq(cmd.throttle, Zero) THEN cmd.direction ELSE Zero))
        all == t.writes \o s.writes
    IN  [panic |-> t.panic \/ s.panic,
         ok |-> okWrites >= Len(all),
         log |-> SubSeq(all, 1, Min(okWrites, Len(all)))]

\* LocomotionController::execute_command, where the first okWrites register
\* writes succeed and the next one fails: the writes that reached the bus, and
\* whether the call returns Ok
execute_command(cmd, okWrites) ==
    LET t == set_pwm_on_percentage(PCA9685_THROTTLE_CHANNEL,
                 locomotion_value_to_pwm_on_percentage(cmd.throttle))
        s == set_pwm_on_percentage(PCA9685_STEERING_CHANNEL,
                 locomotion_value_to_pwm_on_percentage(cmd.direction))
        all == t.writes \o s.writes
    IN  [panic |-> t.panic \/ s.panic,
         ok |-> okWrites >= Len(all),
         log |-> SubSeq(all, 1, Min(okWrites, Len(all)))]

\* register writes of one execute_command: four for each of the two channels
WritesPerCommand == 4 + 4

-----------------------------------------------------------------------------
(* signals.rs: SignalManager.                                              *)

SIGHUP == 1
SIGINT == 2
SIGTERM == 15

\* a mapping in which SIGINT asks for a reload
MANAGED_SIGNALSInterruptReloads ==
    <<[signo |-> SIGTERM, intention |-> "Terminate"],
      [signo |-> SIGINT, intention |-> "ReloadConfiguration"],
      [signo |-> SIGHUP, intention |-> "ReloadConfiguration"]>>

MANAGED_SIGNALS == <<[signo |-> SIGTERM, intention |-> "Terminate"],
                     [signo |-> SIGINT, intention |-> "Terminate"],
                     [signo |-> SIGHUP, intention |-> "ReloadConfiguration"]>>

Managed(signo) == \E i \in 1..Len(MANAGED_SIGNALS) : MANAGED_SIGNALS[i].signo = signo
IntentionOf(signo) ==
    MANAGED_SIGNALS[CHOOSE i \in 1..Len(MANAGED_SIGNALS) :
                        /\ MANAGED_SIGNALS[i].signo = signo
                        /\ \A j \in 1..(i - 1) : MANAGED_SIGNALS[j].signo # signo].intention

\* a next_signal that gives up after the first record
next_signalFirstRecordOnly(pending, fault, consumed) ==
    IF fault # "none" THEN [kind |-> "error", consumed |-> consumed]
    ELSE IF pending = <<>> THEN [kind |-> "blocked", consumed |-> consumed]
    ELSE IF Managed(Head(pending))
    THEN [kind |-> "intention", intention |-> IntentionOf(Head(pending)),
          consumed |-> consumed + 1]
    ELSE [kind |-> "blocked", consumed |-> consumed + 1]

\* SignalManager::next_signal on a descriptor holding the records `pending`.  The
\* descriptor is created without SFD_NONBLOCK (signalfd(-1, &mask, 0)), so a
\* read with nothing pending does not return: kind "blocked".  fault is what
\* goes wrong with the first read: "none", "failed" (read returns < 0) or
\* "short" (fewer bytes than one record).
RECURSIVE next_signal(_, _, _)
next_signal(pending, fault, consumed) ==
    IF fault # "none" THEN [kind |-> "error", consumed |-> consumed]
    ELSE IF pending = <<>> THEN [kind |-> "blocked", consumed |-> consumed]
    ELSE IF Managed(Head(pending))
    THEN [kind |-> "intention", intention |-> IntentionOf(Head(pending)),
          consumed |-> consumed + 1]
    ELSE next_signal(Tail(pending), "none", consumed + 1)

-----------------------------------------------------------------------------
(* runloop.rs: start_runloop.                                              *)

\* main.rs: RUNLOOP_INTERVAL, in ms
RUNLOOP_INTERVAL == 20

\* a schedule that restarts from the end of each iteration
AfterKeepGoingDrifting(deadline, interval, end) ==
    [deadline |-> end + interval, sleep |-> TRUE]

\* a schedule that keeps the old deadline after an overrun
AfterKeepGoingCatchUp(deadline, interval, end) ==
    LET upcoming == deadline + interval
    IN  IF end > upcoming
        THEN [deadline |-> upcoming, sleep |-> FALSE]
        ELSE [deadline |-> upcoming, sleep |-> TRUE]

\* The KeepGoing arm: the new start_of_upcoming_iteration, and whether
\* sleep_until is called; end is what now() returns.
AfterKeepGoing(deadline, interval, end) ==
    LET upcoming == deadline + interval
    IN  IF end > upcoming
        THEN [deadline |-> end, sleep |-> FALSE]
        ELSE [deadline |-> upcoming, sleep |-> TRUE]

\* what is recorded of the scheduling decisions: the clock at the start of the
\* loop, the number of decisions, the last decision (the deadline before it, the
\* time now() returned, whether sleep_until was called), the time of the
\* decision before it when that was an overrun (-1 otherwise) and the time it
\* overran by, and the run of
\* iterations that ended by their deadline (its length, and the deadline it
\* started from)
NoSched == [startTime |-> -1, decisions |-> 0, prevDeadline |-> -1, end |-> -1,
            slept |-> FALSE, overrunBefore |-> -1, overranByBefore |-> 0,
            streak |-> 0, base |-> -1]

runloopVars == <<pc, start_of_upcoming_iteration, blockResult, exitCode, sched>>

\* let mut start_of_upcoming_iteration = now();
RunloopStart ==
    /\ pc = "start"
    /\ start_of_upcoming_iteration' = clock
    /\ sched' = [NoSched EXCEPT !.startTime = clock, !.base = clock]
    /\ pc' = "block"
    /\ UNCHANGED <<clock, blockResult, exitCode, sigPending, files, inotifyQ, evq,
                   readerGone, gamepad_devices, current_gamepad, state, command,
                   i2cLog, tick, fed, delivered, prevExec,
                   watching, det, initLog, call>>

\* block()? returned an error: start_runloop returns it
RunloopReturnErr ==
    /\ pc = "blockDone" /\ blockResult = "Err"
    /\ pc' = "returnedErr"
    /\ UNCHANGED <<clock, start_of_upcoming_iteration, blockResult, exitCode,
                   sigPending, files, inotifyQ, evq, readerGone, gamepad_devices,
                   current_gamepad, state, command, i2cLog, tick, fed, delivered,
                   sched, prevExec,
                   watching, det, initLog, call>>

\* IterationOutcome::Conclude => return Ok(())
RunloopConclude ==
    /\ pc = "blockDone" /\ blockResult = "Conclude"
    /\ pc' = "returnedOk"
    /\ UNCHANGED <<clock, start_of_upcoming_iteration, blockResult, exitCode,
                   sigPending, files, inotifyQ, evq, readerGone, gamepad_devices,
                   current_gamepad, state, command, i2cLog, tick, fed, delivered,
                   sched, prevExec,
                   watching, det, initLog, call>>

\* IterationOutcome::KeepGoing: advance the deadline, compare with now()
RunloopKeepGoing ==
    /\ pc = "blockDone" /\ blockResult = "KeepGoing"
    /\ LET end == clock
           r == AfterKeepGoing(start_of_upcoming_iteration, RUNLOOP_INTERVAL, end)
           inTime == end <= start_of_upcoming_iteration + RUNLOOP_INTERVAL
       IN  /\ start_of_upcoming_iteration' = r.deadline
           /\ pc' = IF r.sleep THEN "sleep" ELSE "block"
           /\ sched' = [sched EXCEPT
                  !.decisions = Min(@ + 1, 2),
                  !.prevDeadline = start_of_upcoming_iteration,
                  !.end = end,
                  !.slept = r.sleep,
                  !.overrunBefore =
                      IF sched.decisions > 0
                         /\ sched.end > sched.prevDeadline + RUNLOOP_INTERVAL
                      THEN sched.end ELSE -1,
                  !.overranByBefore =
                      IF sched.decisions > 0
                         /\ sched.end > sched.prevDeadline + RUNLOOP_INTERVAL
                      THEN sched.end - (sched.prevDeadline + RUNLOOP_INTERVAL) ELSE 0,
                  !.streak = IF inTime THEN @ + 1 ELSE 0,
                  !.base = IF inTime THEN @ ELSE r.deadline]
    /\ UNCHANGED <<clock, blockResult, exitCode, sigPending, files, inotifyQ, evq,
                   readerGone, gamepad_devices, current_gamepad, state, command,
                   i2cLog, tick, fed, delivered, prevExec,
                   watching, det, initLog, call>>

\* a sleep_until that returns before the clock has reached the deadline
RunloopWakeEarly ==
    /\ pc = "sleep"
    /\ pc' = "block"
    /\ UNCHANGED <<clock, start_of_upcoming_iteration, blockResult, exitCode,
                   sigPending, files, inotifyQ, evq, readerGone, gamepad_devices,
                   current_gamepad, state, command, i2cLog, tick, fed, delivered,
                   sched, prevExec,
                   watching, det, initLog, call>>

\* sleep_until(start_of_upcoming_iteration) returns once the clock has reached it
RunloopWake ==
    /\ pc = "sleep"
    /\ clock >= start_of_upcoming_iteration
    /\ pc' = "block"
    /\ UNCHANGED <<clock, start_of_upcoming_iteration, blockResult, exitCode,
                   sigPending, files, inotifyQ, evq, readerGone, gamepad_devices,
                   current_gamepad, state, command, i2cLog, tick, fed, delivered,
                   sched, prevExec,
                   watching, det, initLog, call>>

\* main.rs: main maps the result of run_application to the exit code
MainExit ==
    /\ pc \in {"returnedOk", "returnedErr"}
    /\ exitCode' = IF pc = "returnedOk" THEN 0 ELSE 1
    /\ pc' = "exit"
    /\ UNCHANGED <<clock, start_of_upcoming_iteration, blockResult, sigPending,
                   files, inotifyQ, evq, readerGone, gamepad_devices,
                   current_gamepad, state, command, i2cLog, tick, fed, delivered,
                   sched, prevExec,
                   watching, det, initLog, call>>

\* The monotonic clock advances.  The process looks at the clock only in the
\* now() after an iteration and in sleep_until, so the time an iteration takes
\* is placed right before that now().
ClockAdvance ==
    /\ pc \in {"blockDone", "sleep"}
    /\ clock + ClockStep <= MaxTime
    /\ clock' = clock + ClockStep
    /\ UNCHANGED <<pc, start_of_upcoming_iteration, blockResult, exitCode,
                   sigPending, files, inotifyQ, evq, readerGone, gamepad_devices,
                   current_gamepad, state, command, i2cLog, tick, fed, delivered,
                   sched, prevExec,
                   watching, det, initLog, call>>

-----------------------------------------------------------------------------
(* main.rs: the block run_application hands to start_runloop, in its three     *)
(* steps: the signal poll, process_input and execute_command.                  *)

\* what a tick has observed and done so far: what went wrong with the read of
\* its poll, the number of the last signal the poll read (0 when none), the
\* outcome of the poll, what the read of the inotify descriptor returned, the
\* events handed to the interpreter, the outcome of the reader's read, the
\* number of register writes that succeeded (-1 before execute_command), the
\* interpreter state the tick started from, and the steps taken
FreshTick(st) == [fault |-> "none", signo |-> 0, signal |-> "none",
                  folder |-> "none", events |-> <<>>, read |-> "none",
                  okWrites |-> -1, stateBefore |-> st, steps |-> <<>>]

Drop(seq, n) == SubSeq(seq, n + 1, Len(seq))

\* signal_manager.next_signal()? and the match on its result
PollStep(fault) ==
    LET r == next_signal(sigPending, fault, 0)
        seen == IF r.kind = "intention" THEN r.intention ELSE r.kind
    IN  /\ sigPending' = Drop(sigPending, r.consumed)
        /\ tick' = [FreshTick(state) EXCEPT
                        !.fault = fault,
                        !.signo = IF r.consumed > 0 THEN sigPending[r.consumed] ELSE 0,
                        !.signal = seen,
                        !.steps = <<"poll">>]
        /\ command' = NoCommand
        /\ i2cLog' = <<>>
        /\ pc' = CASE r.kind = "blocked" -> "sigwait"
                   [] r.kind = "error" -> "blockDone"
                   [] r.intention = "Terminate" -> "blockDone"
                   [] OTHER -> "input"
        /\ blockResult' = CASE r.kind = "blocked" -> "None"
                            [] r.kind = "error" -> "Err"
                            [] r.intention = "Terminate" -> "Conclude"
                            [] OTHER -> "None"
        /\ UNCHANGED <<clock, start_of_upcoming_iteration, exitCode, files,
                       inotifyQ, evq, readerGone, gamepad_devices, current_gamepad,
                       state, fed, delivered, sched, prevExec,
                   watching, det, initLog, call>>

\* the tick starts: the read of the signal descriptor is issued
TickPoll ==
    /\ pc = "block"
    /\ \E fault \in {"none", "failed", "short"} : PollStep(fault)

\* the read of the signal descriptor, blocked so far, returns a record
TickPollResumes ==
    /\ pc = "sigwait"
    /\ sigPending # <<>>
    /\ PollStep("none")

\* gamepad_input_interpreter.process_input()?
TickProcessInput ==
    /\ pc = "input"
    /\ \E inotifyFails \in BOOLEAN, permits \in BOOLEAN :
         LET ird == KernelInotifyRead(inotifyQ, inotifyFails)
             r == AnyGamepad_read_events(files, gamepad_devices, current_gamepad,
                      ird, permits, evq, readerGone)
             st == InterpreterFold(state, r.events)
             cmd == CommandOfState(st)
         IN  /\ inotifyQ' = Drop(inotifyQ, Len(ird.records))
             /\ gamepad_devices' = r.devices
             /\ current_gamepad' = r.current
             /\ evq' = IF r.current.held THEN Drop(evq, r.consumed) ELSE <<>>
             /\ readerGone' = IF r.current.held THEN readerGone ELSE FALSE
             /\ state' = st
             /\ tick' = [tick EXCEPT !.events = r.events, !.read = r.read,
                                     !.folder = ird.kind,
                                     !.steps = IF r.ok THEN @ \o <<"drain", "command">>
                                               ELSE @ \o <<"drain">>]
             /\ command' = IF r.ok THEN cmd ELSE command
             /\ pc' = IF ~r.ok THEN "blockDone"
                      ELSE IF cmd.valid THEN "execute" ELSE "panic"
             /\ blockResult' = IF r.ok THEN blockResult ELSE "Err"
    /\ UNCHANGED <<clock, start_of_upcoming_iteration, exitCode, sigPending, files,
                   i2cLog, fed, delivered, sched, prevExec,
                   watching, det, initLog, call>>

\* locomotion_controller.execute_command(locomotion_command)?
TickExecuteCommand ==
    /\ pc = "execute"
    /\ \E okWrites \in 0..WritesPerCommand :
         LET r == execute_command(command, okWrites)
         IN  /\ i2cLog' = r.log
             /\ pc' = IF r.panic THEN "panic" ELSE "blockDone"
             /\ blockResult' = IF r.ok THEN "KeepGoing" ELSE "Err"
             /\ tick' = [tick EXCEPT !.okWrites = okWrites,
                                     !.steps = Append(@, "execute")]
    /\ UNCHANGED <<clock, start_of_upcoming_iteration, exitCode, sigPending, files,
                   inotifyQ, evq, readerGone, gamepad_devices, current_gamepad,
                   state, command, fed, delivered, sched, prevExec,
                   watching, det, initLog, call>>

-----------------------------------------------------------------------------
(* The environment: signals, the input directory, the gamepad.             *)

js0 == <<"j", "s", "-", "e", "v", "d", "e", "v", "0">>
js1 == <<"j", "s", "-", "e", "v", "d", "e", "v", "1">>
js2 == <<"j", "s", "-", "e", "v", "d", "e", "v", "2">>
js3 == <<"j", "s", "-", "e", "v", "d", "e", "v", "3">>
event0 == <<"e", "v", "e", "n", "t", "0">>
DeviceNames == {js0, js1, event0}

\* the signals in the mask of the signalfd
DeliverableSignals == {SIGHUP, SIGINT, SIGTERM}

\* the records of the pending signals in the order reads return them: a
\* standard signal is pending at most once, and the lowest number is dequeued first
RECURSIVE InsertSorted(_, _)
InsertSorted(seq, x) ==
    IF seq = <<>> THEN <<x>>
    ELSE IF x < Head(seq) THEN <<x>> \o seq
    ELSE <<Head(seq)>> \o InsertSorted(Tail(seq), x)

\* a signal is sent to the process.  The process looks at its signals only in
\* the read of the poll, so arrivals are placed right before that read.
SignalArrives(signo) ==
    /\ pc \in {"block", "sigwait"}
    /\ ~Contains(sigPending, signo)
    /\ sigPending' = InsertSorted(sigPending, signo)
    /\ UNCHANGED <<pc, clock, start_of_upcoming_iteration, blockResult, exitCode,
                   files, inotifyQ, evq, readerGone, gamepad_devices,
                   current_gamepad, state, command, i2cLog, tick, fed, delivered,
                   sched, prevExec,
                   watching, det, initLog, call>>

\* the kernel queues an inotify record; at its limit it queues one overflow
\* record instead and drops what follows
InotifyEnqueue(q, rec) ==
    IF Len(q) >= MaxQueuedEvents
    THEN IF q[Len(q)] = OverflowRecord THEN q ELSE Append(q, OverflowRecord)
    ELSE Append(q, rec)

\* The process looks at the folder and at the gamepad only in process_input, so
\* their changes are placed right before it (GamepadTurn).
GamepadTurn == pc \in {"input", "reader", "detNew", "detIdle"}

\* a device file appears in the watched folder
Plug(name) ==
    /\ GamepadTurn
    /\ files[name] = "absent"
    /\ files' = [files EXCEPT ![name] = "chr"]
    /\ inotifyQ' = IF watching
                   THEN InotifyEnqueue(inotifyQ, InotifyRecord({"IN_CREATE"}, name))
                   ELSE inotifyQ
    /\ UNCHANGED <<pc, clock, start_of_upcoming_iteration, blockResult, exitCode,
                   sigPending, evq, readerGone, gamepad_devices, current_gamepad,
                   state, command, i2cLog, tick, fed, delivered, sched, prevExec,
                   watching, det, initLog, call>>

\* a device file disappears; reads of a descriptor held on it fail from now on
Unplug(name) ==
    /\ GamepadTurn
    /\ files[name] = "chr"
    /\ files' = [files EXCEPT ![name] = "absent"]
    /\ inotifyQ' = IF watching
                   THEN InotifyEnqueue(inotifyQ, InotifyRecord({"IN_DELETE"}, name))
                   ELSE inotifyQ
    /\ readerGone' = IF current_gamepad.held
                     THEN readerGone \/ file_name(current_gamepad.path) = name
                     ELSE readerGone
    /\ UNCHANGED <<pc, clock, start_of_upcoming_iteration, blockResult, exitCode,
                   sigPending, evq, gamepad_devices, current_gamepad, state,
                   command, i2cLog, tick, fed, delivered, sched, prevExec,
                   watching, det, initLog, call>>

\* the attributes of a device file change (udev fixes its permissions)
Touch(name) ==
    /\ GamepadTurn
    /\ files[name] = "chr"
    /\ watching
    /\ inotifyQ' = InotifyEnqueue(inotifyQ, InotifyRecord({"IN_ATTRIB"}, name))
    /\ UNCHANGED <<pc, clock, start_of_upcoming_iteration, blockResult, exitCode,
                   sigPending, files, evq, readerGone, gamepad_devices,
                   current_gamepad, state, command, i2cLog, tick, fed, delivered,
                   sched, prevExec, watching, det, initLog, call>>

\* the gamepad reports an input event to the held descriptor
KernelInput(e) ==
    /\ GamepadTurn
    /\ current_gamepad.held /\ ~readerGone
    /\ Len(evq) < MaxEvq
    /\ evq' = Append(evq, e)
    /\ UNCHANGED <<pc, clock, start_of_upcoming_iteration, blockResult, exitCode,
                   sigPending, files, inotifyQ, readerGone, gamepad_devices,
                   current_gamepad, state, command, i2cLog, tick, fed, delivered,
                   sched, prevExec,
                   watching, det, initLog, call>>

-----------------------------------------------------------------------------
(* The application: run_application from the call of start_runloop on.     *)

\* the device names and input events of the application specification
AppNames == {js0}
AppInputs == {InputEvent(EV_ABS, ABS_RZ, 1023), InputEvent(EV_ABS, ABS_X, -32768)}

Perms(S) == {f \in [1..Cardinality(S) -> S] : \A i, j \in 1..Cardinality(S) :
                                                  f[i] = f[j] => i = j}

\* scan_for_gamepad_devices: read_dir lists the folder in no particular order
scan_for_gamepad_devices(fs) ==
    Perms({PathJoin(GAMEPAD_DEVICE_FOLDER, n) : n \in
              {m \in DeviceNames : /\ fs[m] # "absent"
                                   /\ is_gamepad_device_file(fs,
                                          PathJoin(GAMEPAD_DEVICE_FOLDER, m))}})

\* the state once the signal manager, the interpreter and the controller are
\* constructed, over the device names `names`
Constructed(names) ==
    /\ pc = "start"
    /\ clock = 0
    /\ start_of_upcoming_iteration = 0
    /\ blockResult = "None"
    /\ exitCode = -1
    /\ sigPending = <<>>
    /\ files \in {fs \in [DeviceNames -> {"absent", "chr"}] :
                     \A n \in DeviceNames \ names : fs[n] = "absent"}
    /\ inotifyQ = <<>>
    /\ evq = <<>>
    /\ readerGone = FALSE
    /\ gamepad_devices \in scan_for_gamepad_devices(files)
    /\ current_gamepad = NoGamepad
    /\ state = GamepadState_new
    /\ command = NoCommand
    /\ i2cLog = <<>>
    /\ tick = FreshTick(GamepadState_new)
    /\ fed = <<>>
    /\ delivered = <<>>
    /\ sched = NoSched
    /\ prevExec = NoCommand
    /\ watching = TRUE
    /\ det = NoDet
    /\ initLog = <<>>
    /\ call = NoCall

Init == Constructed(AppNames)

Next ==
    \/ RunloopStart
    \/ TickPoll
    \/ TickPollResumes
    \/ TickProcessInput
    \/ TickExecuteCommand
    \/ RunloopReturnErr
    \/ RunloopConclude
    \/ RunloopKeepGoing
    \/ RunloopWake
    \/ MainExit
    \/ ClockAdvance
    \/ \E signo \in DeliverableSignals : SignalArrives(signo)
    \/ \E name \in AppNames : Plug(name)
    \/ \E name \in AppNames : Unplug(name)
    \/ \E e \in AppInputs : KernelInput(e)

Spec == Init /\ [][Next]_vars

-----------------------------------------------------------------------------
(* The run loop alone, around a block that returns any outcome after any   *)
(* time.                                                                   *)

\* block() runs and returns
BlockRuns ==
    /\ pc = "block"
    /\ \E outcome \in {"KeepGoing", "Conclude", "Err"} : blockResult' = outcome
    /\ pc' = "blockDone"
    /\ UNCHANGED <<clock, start_of_upcoming_iteration, exitCode, sigPending, files,
                   inotifyQ, evq, readerGone, gamepad_devices, current_gamepad,
                   state, command, i2cLog, tick, fed, delivered, sched, prevExec,
                   watching, det, initLog, call>>

NextRunloop ==
    \/ RunloopStart
    \/ BlockRuns
    \/ RunloopReturnErr
    \/ RunloopConclude
    \/ RunloopKeepGoing
    \/ RunloopWake
    \/ MainExit
    \/ ClockAdvance

\* start_runloop is called at any time of the monotonic clock
InitRunloop ==
    /\ pc = "start"
    /\ clock \in {0, ClockStep}
    /\ start_of_upcoming_iteration = 0
    /\ blockResult = "None"
    /\ exitCode = -1
    /\ sigPending = <<>>
    /\ files = [n \in DeviceNames |-> "absent"]
    /\ inotifyQ = <<>>
    /\ evq = <<>>
    /\ readerGone = FALSE
    /\ gamepad_devices = <<>>
    /\ current_gamepad = NoGamepad
    /\ state = GamepadState_new
    /\ command = NoCommand
    /\ i2cLog = <<>>
    /\ tick = FreshTick(GamepadState_new)
    /\ fed = <<>>
    /\ delivered = <<>>
    /\ sched = NoSched
    /\ prevExec = NoCommand
    /\ watching = TRUE
    /\ det = NoDet
    /\ initLog = <<>>
    /\ call = NoCall

SpecRunloop == InitRunloop /\ [][NextRunloop]_vars

-----------------------------------------------------------------------------
(* One Gamepad reader, fed input events and read repeatedly.               *)

ReaderInputs == {InputEvent(EV_SYN, SYN_DROPPED, 0), InputEvent(EV_SYN, SYN_REPORT, 0),
                 InputEvent(EV_KEY, BTN_A, 1), InputEvent(EV_KEY, BTN_B, 1),
                 InputEvent(EV_ABS, ABS_X, -32768)}

\* the number of read_events calls that consumed events so far
Calls == IF fed = <<>> THEN 0 ELSE fed[Len(fed)].call

\* gamepad.read_events(handler), the handler recording what it is handed: fed
\* gains the events consumed, with the number of this call, and delivered the
\* events handed over, with the position in fed of the event each came from
ReaderRead ==
    /\ pc = "reader"
    /\ current_gamepad.held
    /\ LET rd == KernelRead(evq, readerGone)
           r == Gamepad_read_events(current_gamepad, rd)
       IN  /\ current_gamepad' = r.self
           /\ evq' = Drop(evq, Len(rd.events))
           /\ fed' = fed \o [i \in 1..Len(rd.events) |->
                                [event |-> rd.events[i], call |-> Calls + 1]]
           /\ delivered' = delivered \o
                  [i \in 1..Len(r.emitted) |->
                      [idx |-> Len(fed) + r.emitted[i].idx, event |-> r.emitted[i].event]]
    /\ UNCHANGED <<pc, clock, start_of_upcoming_iteration, blockResult, exitCode,
                   sigPending, files, inotifyQ, readerGone, gamepad_devices, state,
                   command, i2cLog, tick, sched, prevExec,
                   watching, det, initLog, call>>

ReaderInput(e) ==
    /\ Len(fed) + Len(evq) < MaxFed
    /\ KernelInput(e)

InitReader ==
    /\ pc = "reader"
    /\ clock = 0
    /\ start_of_upcoming_iteration = 0
    /\ blockResult = "None"
    /\ exitCode = -1
    /\ sigPending = <<>>
    /\ files = [n \in DeviceNames |-> IF n = js0 THEN "chr" ELSE "absent"]
    /\ inotifyQ = <<>>
    /\ evq = <<>>
    /\ readerGone = FALSE
    /\ gamepad_devices = <<PathJoin(GAMEPAD_DEVICE_FOLDER, js0)>>
    /\ current_gamepad = Gamepad_new(PathJoin(GAMEPAD_DEVICE_FOLDER, js0))
    /\ state = GamepadState_new
    /\ command = NoCommand
    /\ i2cLog = <<>>
    /\ tick = FreshTick(GamepadState_new)
    /\ fed = <<>>
    /\ delivered = <<>>
    /\ sched = NoSched
    /\ prevExec = NoCommand
    /\ watching = TRUE
    /\ det = NoDet
    /\ initLog = <<>>
    /\ call = NoCall

NextReader ==
    \/ ReaderRead
    \/ \E e \in ReaderInputs : ReaderInput(e)

SpecReader == InitReader /\ [][NextReader]_vars

-----------------------------------------------------------------------------
(* The reader on single input events, with each call on record.            *)

\* raw axis values around the clamps and the dead zone, up to the ends of i32
StickValues ==
    {-2147483647, -32769, -32768, -32767, -16384, -4916, -4915, -1, 0, 1,
     3000, 4915, 4916, 32766, 32767, 32768, 2147483647}
TriggerValues ==
    {-2147483647, -1, 0, 1, 153, 154, 512, 1022, 1023, 1024, 2147483647}
StickCodes == {ABS_X, ABS_Y, ABS_RX, ABS_RY}
TriggerCodes == {ABS_Z, ABS_RZ}
KeyCodes ==
    {BTN_A, BTN_B, BTN_X, BTN_Y, BTN_TL, BTN_TR, BTN_SELECT, BTN_START,
     BTN_MODE, BTN_THUMBL, BTN_THUMBR}
\* BTN_C, BTN_Z and KEY_A; ABS_THROTTLE and ABS_MISC
OtherKeyCodes == {306, 309, 30}
OtherAxisCodes == {6, 40}
\* EV_REL and EV_MSC
OtherTypes == {2, 4}

DecodeInputs ==
    {InputEvent(EV_ABS, c, v) : c \in StickCodes, v \in StickValues}
        \cup {InputEvent(EV_ABS, c, v) : c \in TriggerCodes, v \in TriggerValues}
        \cup {InputEvent(EV_ABS, c, v) : c \in {ABS_HAT0X, ABS_HAT0Y} \cup OtherAxisCodes,
                                         v \in {-1, 0, 1}}
        \cup {InputEvent(EV_KEY, c, v) : c \in KeyCodes \cup OtherKeyCodes, v \in {0, 1, 2}}
        \cup {InputEvent(t, c, v) : t \in OtherTypes, c \in {0, BTN_A}, v \in {0, 1}}
        \cup {InputEvent(EV_SYN, SYN_REPORT, 0), InputEvent(EV_SYN, SYN_DROPPED, 0)}

\* gamepad.read_events(handler) on a read that returns one input_event
DecodeRead ==
    /\ pc = "decode"
    /\ current_gamepad.held
    /\ \E e \in DecodeInputs :
         LET r == Gamepad_read_events(current_gamepad, KernelRead(<<e>>, FALSE))
         IN  /\ current_gamepad' = r.self
             /\ call' = [fn |-> "Gamepad::read_events",
                         recovering |-> current_gamepad.recovering_from_dropped,
                         event |-> e,
                         ok |-> r.ok,
                         emitted |-> [i \in 1..Len(r.emitted) |-> r.emitted[i].event]]
    /\ UNCHANGED <<pc, clock, start_of_upcoming_iteration, blockResult, exitCode,
                   sigPending, files, inotifyQ, evq, readerGone, gamepad_devices,
                   state, command, i2cLog, tick, fed, delivered, sched, prevExec,
                   watching, det, initLog>>

InitDecode ==
    /\ pc = "decode"
    /\ clock = 0
    /\ start_of_upcoming_iteration = 0
    /\ blockResult = "None"
    /\ exitCode = -1
    /\ sigPending = <<>>
    /\ files = [n \in DeviceNames |-> IF n = js0 THEN "chr" ELSE "absent"]
    /\ inotifyQ = <<>>
    /\ evq = <<>>
    /\ readerGone = FALSE
    /\ gamepad_devices = <<PathJoin(GAMEPAD_DEVICE_FOLDER, js0)>>
    /\ current_gamepad = Gamepad_new(PathJoin(GAMEPAD_DEVICE_FOLDER, js0))
    /\ state = GamepadState_new
    /\ command = NoCommand
    /\ i2cLog = <<>>
    /\ tick = FreshTick(GamepadState_new)
    /\ fed = <<>>
    /\ delivered = <<>>
    /\ sched = NoSched
    /\ prevExec = NoCommand
    /\ watching = TRUE
    /\ det = NoDet
    /\ initLog = <<>>
    /\ call = NoCall

NextDecode == DecodeRead

SpecDecode == InitDecode /\ [][NextDecode]_vars

-----------------------------------------------------------------------------
(* The signal manager alone, on any records the descriptor may hold.       *)

\* SIGQUIT and SIGUSR1, which are not managed
OtherSignals == {3, 10}
RecordSignals == {SIGHUP, SIGINT, SIGTERM} \cup OtherSignals

\* a signalfd_siginfo record becomes readable on signal_fd
SignalsRecord(signo) ==
    /\ pc = "signals"
    /\ Len(sigPending) < MaxPendingRecords
    /\ sigPending' = Append(sigPending, signo)
    /\ UNCHANGED <<pc, clock, start_of_upcoming_iteration, blockResult, exitCode,
                   files, inotifyQ, evq, readerGone, gamepad_devices,
                   current_gamepad, state, command, i2cLog, tick, fed, delivered,
                   sched, prevExec, watching, det, initLog, call>>

\* signal_manager.next_signal(); a call that is blocked in read goes on with
\* the records that arrive later
SignalsNext ==
    /\ pc = "signals"
    /\ \E fault \in {"none", "failed", "short"} :
         LET r == next_signal(sigPending, fault, 0)
         IN  /\ call' = [fn |-> "next_signal", pending |-> sigPending,
                         fault |-> fault, result |-> r,
                         left |-> Drop(sigPending, r.consumed)]
             /\ sigPending' = Drop(sigPending, r.consumed)
    /\ UNCHANGED <<pc, clock, start_of_upcoming_iteration, blockResult, exitCode,
                   files, inotifyQ, evq, readerGone, gamepad_devices,
                   current_gamepad, state, command, i2cLog, tick, fed, delivered,
                   sched, prevExec, watching, det, initLog>>

InitSignals ==
    /\ pc = "signals"
    /\ clock = 0
    /\ start_of_upcoming_iteration = 0
    /\ blockResult = "None"
    /\ exitCode = -1
    /\ sigPending = <<>>
    /\ files = [n \in DeviceNames |-> "absent"]
    /\ inotifyQ = <<>>
    /\ evq = <<>>
    /\ readerGone = FALSE
    /\ gamepad_devices = <<>>
    /\ current_gamepad = NoGamepad
    /\ state = GamepadState_new
    /\ command = NoCommand
    /\ i2cLog = <<>>
    /\ tick = FreshTick(GamepadState_new)
    /\ fed = <<>>
    /\ delivered = <<>>
    /\ sched = NoSched
    /\ prevExec = NoCommand
    /\ watching = TRUE
    /\ det = NoDet
    /\ initLog = <<>>
    /\ call = NoCall

NextSignals ==
    \/ \E signo \in RecordSignals : SignalsRecord(signo)
    \/ SignalsNext

SpecSignals == InitSignals /\ [][NextSignals]_vars

-----------------------------------------------------------------------------
(* The locomotion controller alone, executing one command after another.   *)

GridValues == {Reduce(Rat(k, GridDen)) : k \in (-GridDen)..GridDen}
GridCommands == {LocomotionCommand_new(t, d) : t \in GridValues, d \in GridValues}

\* the caller hands the controller its next command
PwmNextCommand ==
    /\ pc = "blockDone" /\ blockResult = "KeepGoing"
    /\ prevExec' = [valid |-> TRUE, command |-> command, log |-> i2cLog]
    /\ command' \in GridCommands
    /\ i2cLog' = <<>>
    /\ tick' = FreshTick(state)
    /\ pc' = "execute"
    /\ UNCHANGED <<clock, start_of_upcoming_iteration, blockResult, exitCode,
                   sigPending, files, inotifyQ, evq, readerGone, gamepad_devices,
                   current_gamepad, state, fed, delivered, sched,
                   watching, det, initLog, call>>

InitPwm ==
    /\ pc = "execute"
    /\ clock = 0
    /\ start_of_upcoming_iteration = 0
    /\ blockResult = "None"
    /\ exitCode = -1
    /\ sigPending = <<>>
    /\ files = [n \in DeviceNames |-> "absent"]
    /\ inotifyQ = <<>>
    /\ evq = <<>>
    /\ readerGone = FALSE
    /\ gamepad_devices = <<>>
    /\ current_gamepad = NoGamepad
    /\ state = GamepadState_new
    /\ command \in GridCommands
    /\ i2cLog = <<>>
    /\ tick = FreshTick(GamepadState_new)
    /\ fed = <<>>
    /\ delivered = <<>>
    /\ sched = NoSched
    /\ prevExec = NoCommand
    /\ watching = TRUE
    /\ det = NoDet
    /\ initLog = <<>>
    /\ call = NoCall

NextPwm ==
    \/ TickExecuteCommand
    \/ PwmNextCommand

SpecPwm == InitPwm /\ [][NextPwm]_vars

-----------------------------------------------------------------------------
(* The interpreter on one gamepad, and LocomotionCommand::new on its own.  *)

\* the raw values the kernel reports for a trigger and for a stick axis, with
\* values outside the nominal ranges 0..1023 and -32768..32767
TriggerRaw == {-1, 0, 512, 1023, 1024}
StickRaw == {-32769, -32768, -16384, 0, 16384, 32767, 32768}

InterpreterInputs ==
    {InputEvent(EV_ABS, ABS_Z, v) : v \in TriggerRaw}
        \cup {InputEvent(EV_ABS, ABS_RZ, v) : v \in TriggerRaw}
        \cup {InputEvent(EV_ABS, ABS_X, v) : v \in StickRaw}
        \cup {InputEvent(EV_ABS, ABS_Y, 32767), InputEvent(EV_KEY, BTN_A, 1),
              InputEvent(EV_ABS, ABS_RX, 32767), InputEvent(EV_ABS, ABS_HAT0X, 1)}

\* gamepad_input_interpreter.process_input(), on a read that returns one event,
\* nothing, or an error
InterpreterProcessInput ==
    /\ pc = "interp"
    /\ \E q \in {<<>>} \cup {<<e>> : e \in InterpreterInputs}, gone \in BOOLEAN :
         LET r == AnyGamepad_read_events(files, gamepad_devices, current_gamepad,
                      KernelInotifyRead(inotifyQ, FALSE), TRUE, q, gone)
             st == InterpreterFold(state, r.events)
             cmd == CommandOfState(st)
         IN  /\ gamepad_devices' = r.devices
             /\ current_gamepad' = r.current
             /\ state' = st
             /\ command' = cmd
             /\ tick' = [FreshTick(state) EXCEPT !.events = r.events,
                                                 !.read = r.read,
                                                 !.steps = <<"drain", "command">>]
             /\ pc' = IF cmd.valid THEN "interp" ELSE "panic"
    /\ UNCHANGED <<clock, start_of_upcoming_iteration, blockResult, exitCode,
                   sigPending, files, inotifyQ, evq, readerGone, i2cLog, fed,
                   delivered, sched, prevExec, watching, det, initLog, call>>

\* the values LocomotionCommand::new is tried on: the grid, and beyond it
ProbeValues == {Reduce(Rat(k, GridDen)) : k \in (-GridDen - 2)..(GridDen + 2)}

\* LocomotionCommand::new(throttle, direction) on values of any origin
CommandProbe ==
    /\ pc = "interp"
    /\ \E throttle \in ProbeValues, direction \in ProbeValues :
         LET cmd == LocomotionCommand_new(throttle, direction)
         IN  /\ command' = cmd
             /\ pc' = IF cmd.valid THEN "interp" ELSE "panic"
    /\ tick' = FreshTick(state)
    /\ UNCHANGED <<clock, start_of_upcoming_iteration, blockResult, exitCode,
                   sigPending, files, inotifyQ, evq, readerGone, gamepad_devices,
                   current_gamepad, state, i2cLog, fed, delivered, sched, prevExec,
                   watching, det, initLog, call>>

InitInterpreter ==
    /\ pc = "interp"
    /\ clock = 0
    /\ start_of_upcoming_iteration = 0
    /\ blockResult = "None"
    /\ exitCode = -1
    /\ sigPending = <<>>
    /\ files = [n \in DeviceNames |-> IF n = js0 THEN "chr" ELSE "absent"]
    /\ inotifyQ = <<>>
    /\ evq = <<>>
    /\ readerGone = FALSE
    /\ gamepad_devices = <<PathJoin(GAMEPAD_DEVICE_FOLDER, js0)>>
    /\ current_gamepad = NoGamepad
    /\ state = GamepadState_new
    /\ command = NoCommand
    /\ i2cLog = <<>>
    /\ tick = FreshTick(GamepadState_new)
    /\ fed = <<>>
    /\ delivered = <<>>
    /\ sched = NoSched
    /\ prevExec = NoCommand
    /\ watching = TRUE
    /\ det = NoDet
    /\ initLog = <<>>
    /\ call = NoCall

NextInterpreter ==
    \/ InterpreterProcessInput
    \/ CommandProbe

SpecInterpreter == InitInterpreter /\ [][NextInterpreter]_vars

-----------------------------------------------------------------------------
(* The interpreter over several calls, with all it was handed on record.   *)

\* the events a read returns: at most two of these
LoggedInputs ==
    {InputEvent(EV_ABS, ABS_Z, 1023),
     InputEvent(EV_ABS, ABS_RZ, 1023), InputEvent(EV_ABS, ABS_RZ, 512),
     InputEvent(EV_ABS, ABS_X, -32768), InputEvent(EV_ABS, ABS_Y, 32767)}
LoggedReads ==
    {<<>>} \cup {<<e>> : e \in LoggedInputs}
           \cup {<<e, f>> : e \in LoggedInputs, f \in LoggedInputs}

\* gamepad_input_interpreter.process_input(); delivered collects the events
\* handed to its handler
InterpreterProcessInputLogged ==
    /\ pc = "interp"
    /\ \E q \in LoggedReads, gone \in BOOLEAN :
         LET r == AnyGamepad_read_events(files, gamepad_devices, current_gamepad,
                      KernelInotifyRead(inotifyQ, FALSE), TRUE, q, gone)
             st == InterpreterFold(state, r.events)
             cmd == CommandOfState(st)
         IN  /\ Len(delivered) + Len(r.events) <= MaxHandled
             /\ gamepad_devices' = r.devices
             /\ current_gamepad' = r.current
             /\ state' = st
             /\ command' = cmd
             /\ delivered' = delivered \o r.events
             /\ tick' = [FreshTick(state) EXCEPT !.events = r.events,
                                                 !.read = r.read,
                                                 !.steps = <<"drain", "command">>]
             /\ pc' = IF cmd.valid THEN "interp" ELSE "panic"
    /\ UNCHANGED <<clock, start_of_upcoming_iteration, blockResult, exitCode,
                   sigPending, files, inotifyQ, evq, readerGone, i2cLog, fed,
                   sched, prevExec, watching, det, initLog, call>>

NextInterpreterLogged == InterpreterProcessInputLogged

SpecInterpreterLogged == InitInterpreter /\ [][NextInterpreterLogged]_vars

-----------------------------------------------------------------------------
(* The locomotion controller from its construction to its first command.   *)

\* LocomotionController::new: PCA9685Driver::new(..)?
ControllerNewDriver ==
    /\ pc = "ctorDriver"
    /\ \E opens \in BOOLEAN, okWrites \in 0..DriverSetupWrites :
         LET r == PCA9685Driver_new(PWM_FREQUENCY, opens, okWrites)
         IN  /\ initLog' = r.log
             /\ pc' = IF r.panic THEN "panic"
                      ELSE IF r.ok THEN "ctorEsc" ELSE "ctorErr"
    /\ UNCHANGED <<clock, start_of_upcoming_iteration, blockResult, exitCode,
                   sigPending, files, inotifyQ, evq, readerGone, gamepad_devices,
                   current_gamepad, state, command, i2cLog, tick, fed, delivered,
                   sched, prevExec, watching, det, call>>

\* PCA9685Driver::new(path, pwm_frequency) at any frequency up to MaxFrequency;
\* call keeps the frequency and what prescale_value_for_frequency made of it
MaxFrequency == 1750
PrescaleFrequencies == 0..MaxFrequency
DriverNewAt ==
    /\ pc = "ctorDriver"
    /\ \E pwm_frequency \in PrescaleFrequencies, opens \in BOOLEAN,
          okWrites \in 0..DriverSetupWrites :
         LET r == PCA9685Driver_new(pwm_frequency, opens, okWrites)
         IN  /\ initLog' = r.log
             /\ call' = [fn |-> "PCA9685Driver::new",
                         frequency |-> pwm_frequency,
                         prescale |-> prescale_value_for_frequency(pwm_frequency)]
             /\ pc' = IF r.panic THEN "panic"
                      ELSE IF r.ok THEN "ctorEsc" ELSE "ctorErr"
    /\ UNCHANGED <<clock, start_of_upcoming_iteration, blockResult, exitCode,
                   sigPending, files, inotifyQ, evq, readerGone, gamepad_devices,
                   current_gamepad, state, command, i2cLog, tick, fed, delivered,
                   sched, prevExec, watching, det>>

\* a LocomotionController::new that centres the steering channel
ControllerInitEscOnSteering ==
    /\ pc = "ctorEsc"
    /\ \E okWrites \in 0..4 :
         LET r == set_pwm_on_percentage(PCA9685_STEERING_CHANNEL, PWM_CENTER_ON_PCT)
             done == okWrites >= Len(r.writes)
         IN  /\ initLog' = initLog \o SubSeq(r.writes, 1, Min(okWrites, Len(r.writes)))
             /\ pc' = IF r.panic THEN "panic"
                      ELSE IF done THEN "execute" ELSE "ctorErr"
             /\ command' \in (IF done /\ ~r.panic THEN GridCommands ELSE {command})
    /\ UNCHANGED <<clock, start_of_upcoming_iteration, blockResult, exitCode,
                   sigPending, files, inotifyQ, evq, readerGone, gamepad_devices,
                   current_gamepad, state, i2cLog, tick, fed, delivered, sched,
                   prevExec, watching, det, call>>

\* LocomotionController::new: set_pwm_on_percentage(PCA9685_THROTTLE_CHANNEL,
\* PWM_CENTER_ON_PCT)?, and on Ok the first command of the caller
ControllerInitEsc ==
    /\ pc = "ctorEsc"
    /\ \E okWrites \in 0..4 :
         LET r == set_pwm_on_percentage(PCA9685_THROTTLE_CHANNEL, PWM_CENTER_ON_PCT)
             done == okWrites >= Len(r.writes)
         IN  /\ initLog' = initLog \o SubSeq(r.writes, 1, Min(okWrites, Len(r.writes)))
             /\ pc' = IF r.panic THEN "panic"
                      ELSE IF done THEN "execute" ELSE "ctorErr"
             /\ command' \in (IF done /\ ~r.panic THEN GridCommands ELSE {command})
    /\ UNCHANGED <<clock, start_of_upcoming_iteration, blockResult, exitCode,
                   sigPending, files, inotifyQ, evq, readerGone, gamepad_devices,
                   current_gamepad, state, i2cLog, tick, fed, delivered, sched,
                   prevExec, watching, det, call>>

\* run_application: LocomotionController::new()? returned an error
ControllerReturnErr ==
    /\ pc = "ctorErr"
    /\ pc' = "returnedErr"
    /\ UNCHANGED <<clock, start_of_upcoming_iteration, blockResult, exitCode,
                   sigPending, files, inotifyQ, evq, readerGone, gamepad_devices,
                   current_gamepad, state, command, i2cLog, tick, fed, delivered,
                   sched, prevExec, watching, det, initLog, call>>

InitController ==
    /\ pc = "ctorDriver"
    /\ clock = 0
    /\ start_of_upcoming_iteration = 0
    /\ blockResult = "None"
    /\ exitCode = -1
    /\ sigPending = <<>>
    /\ files = [n \in DeviceNames |-> "absent"]
    /\ inotifyQ = <<>>
    /\ evq = <<>>
    /\ readerGone = FALSE
    /\ gamepad_devices = <<>>
    /\ current_gamepad = NoGamepad
    /\ state = GamepadState_new
    /\ command = NoCommand
    /\ i2cLog = <<>>
    /\ tick = FreshTick(GamepadState_new)
    /\ fed = <<>>
    /\ delivered = <<>>
    /\ sched = NoSched
    /\ prevExec = NoCommand
    /\ watching = TRUE
    /\ det = NoDet
    /\ initLog = <<>>
    /\ call = NoCall

NextController ==
    \/ ControllerNewDriver
    \/ ControllerInitEsc
    \/ ControllerReturnErr
    \/ MainExit
    \/ TickExecuteCommand

SpecController == InitController /\ [][NextController]_vars

\* the construction of the driver alone, at any frequency
NextPrescale == DriverNewAt

SpecPrescale == InitController /\ [][NextPrescale]_vars

-----------------------------------------------------------------------------
(* The checks that stand for programmer errors, each called on its own.    *)

\* a sleep_until that takes an interrupted sleep for a finished one
sleep_untilInterruptible(result) == [panic |-> result \notin {0, 4}]

\* sleep_until, given what clock_nanosleep returns: 0, or an error number
sleep_until(result) == [panic |-> result # 0]

\* 0, EINTR and EINVAL
SleepResults == {0, 4, 22}

\* the values a command is constructed from reach beyond [-1, 1]
CheckedValues == {Rat(k, 2) : k \in (-3)..3}
CheckedPendings == {<<>>, <<SIGHUP>>, <<3, SIGTERM>>}

\* signal_manager.next_signal(), where the read fails, is short, or is whole
CheckedNextSignal ==
    /\ pc = "calls"
    /\ \E pending \in CheckedPendings, fault \in {"none", "failed", "short"} :
         LET r == next_signal(pending, fault, 0)
         IN  call' = [fn |-> "next_signal", pending |-> pending, fault |-> fault,
                      outcome |-> IF r.kind = "error" THEN "error" ELSE "returned"]
    /\ pc' = "called"
    /\ UNCHANGED <<clock, start_of_upcoming_iteration, blockResult, exitCode,
                   sigPending, files, inotifyQ, evq, readerGone, gamepad_devices,
                   current_gamepad, state, command, i2cLog, tick, fed, delivered,
                   sched, prevExec, watching, det, initLog>>

\* sleep_until(deadline), whatever clock_nanosleep returns
CheckedSleep ==
    /\ pc = "calls"
    /\ \E result \in SleepResults :
         call' = [fn |-> "sleep_until", result |-> result,
                  outcome |-> IF sleep_until(result).panic THEN "panic" ELSE "returned"]
    /\ pc' = "called"
    /\ UNCHANGED <<clock, start_of_upcoming_iteration, blockResult, exitCode,
                   sigPending, files, inotifyQ, evq, readerGone, gamepad_devices,
                   current_gamepad, state, command, i2cLog, tick, fed, delivered,
                   sched, prevExec, watching, det, initLog>>

\* LocomotionCommand::new(throttle, direction)
CheckedCommand ==
    /\ pc = "calls"
    /\ \E throttle \in CheckedValues, direction \in CheckedValues :
         call' = [fn |-> "LocomotionCommand::new",
                  throttle |-> throttle, direction |-> direction,
                  outcome |-> IF LocomotionCommand_new(throttle, direction).valid
                              THEN "returned" ELSE "panic"]
    /\ pc' = "called"
    /\ UNCHANGED <<clock, start_of_upcoming_iteration, blockResult, exitCode,
                   sigPending, files, inotifyQ, evq, readerGone, gamepad_devices,
                   current_gamepad, state, command, i2cLog, tick, fed, delivered,
                   sched, prevExec, watching, det, initLog>>

\* prescale_value_for_frequency(pwm_frequency)
CheckedPrescale ==
    /\ pc = "calls"
    /\ \E pwm_frequency \in PrescaleFrequencies :
         LET r == prescale_value_for_frequency(pwm_frequency)
         IN  call' = [fn |-> "prescale_value_for_frequency",
                      frequency |-> pwm_frequency, value |-> r.value,
                      outcome |-> IF r.panic THEN "panic" ELSE "returned"]
    /\ pc' = "called"
    /\ UNCHANGED <<clock, start_of_upcoming_iteration, blockResult, exitCode,
                   sigPending, files, inotifyQ, evq, readerGone, gamepad_devices,
                   current_gamepad, state, command, i2cLog, tick, fed, delivered,
                   sched, prevExec, watching, det, initLog>>

InitChecked ==
    /\ pc = "calls"
    /\ clock = 0
    /\ start_of_upcoming_iteration = 0
    /\ blockResult = "None"
    /\ exitCode = -1
    /\ sigPending = <<>>
    /\ files = [n \in DeviceNames |-> "absent"]
    /\ inotifyQ = <<>>
    /\ evq = <<>>
    /\ readerGone = FALSE
    /\ gamepad_devices = <<>>
    /\ current_gamepad = NoGamepad
    /\ state = GamepadState_new
    /\ command = NoCommand
    /\ i2cLog = <<>>
    /\ tick = FreshTick(GamepadState_new)
    /\ fed = <<>>
    /\ delivered = <<>>
    /\ sched = NoSched
    /\ prevExec = NoCommand
    /\ watching = TRUE
    /\ det = NoDet
    /\ initLog = <<>>
    /\ call = NoCall

NextChecked ==
    \/ CheckedNextSignal
    \/ CheckedSleep
    \/ CheckedCommand
    \/ CheckedPrescale

SpecChecked == InitChecked /\ [][NextChecked]_vars

-----------------------------------------------------------------------------
(* The driver alone: set_pwm_on_percentage on any channel and percentage.  *)

\* the channels the driver is called on reach beyond the 16 of the device
DriverChannels == 0..MaxChannel

\* the percentages it is called on: a grid over [0, 1], and beyond it
DriverPercentages ==
    {Reduce(Rat(k, 2 * GridDen)) : k \in (-2)..(2 * GridDen + 2)}

\* pca9685_driver.set_pwm_on_percentage(channel, percentage), where the first
\* okWrites register writes succeed
DriverSetPwm ==
    /\ pc = "driver"
    /\ \E channel \in DriverChannels, percentage \in DriverPercentages,
          okWrites \in 0..4 :
         LET r == set_pwm_on_percentage(channel, percentage)
         IN  /\ call' = [fn |-> "set_pwm_on_percentage", channel |-> channel,
                         percentage |-> percentage, okWrites |-> okWrites,
                         ok |-> ~r.panic /\ okWrites >= Len(r.writes)]
             /\ i2cLog' = SubSeq(r.writes, 1, Min(okWrites, Len(r.writes)))
             /\ pc' = IF r.panic THEN "panic" ELSE "driver"
    /\ UNCHANGED <<clock, start_of_upcoming_iteration, blockResult, exitCode,
                   sigPending, files, inotifyQ, evq, readerGone, gamepad_devices,
                   current_gamepad, state, command, tick, fed, delivered, sched,
                   prevExec, watching, det, initLog>>

InitDriver ==
    /\ pc = "driver"
    /\ clock = 0
    /\ start_of_upcoming_iteration = 0
    /\ blockResult = "None"
    /\ exitCode = -1
    /\ sigPending = <<>>
    /\ files = [n \in DeviceNames |-> "absent"]
    /\ inotifyQ = <<>>
    /\ evq = <<>>
    /\ readerGone = FALSE
    /\ gamepad_devices = <<>>
    /\ current_gamepad = NoGamepad
    /\ state = GamepadState_new
    /\ command = NoCommand
    /\ i2cLog = <<>>
    /\ tick = FreshTick(GamepadState_new)
    /\ fed = <<>>
    /\ delivered = <<>>
    /\ sched = NoSched
    /\ prevExec = NoCommand
    /\ watching = TRUE
    /\ det = NoDet
    /\ initLog = <<>>
    /\ call = NoCall

NextDriver == DriverSetPwm

SpecDriver == InitDriver /\ [][NextDriver]_vars

-----------------------------------------------------------------------------
(* One GamepadDetector, from its construction on, in a folder where device *)
(* files come and go.                                                      *)

\* one step of GamepadDetector::new; the environment may act between the steps
DetectorSetupStep ==
    /\ pc = "detNew"
    /\ LET step == DetectorNewSteps[Len(det.steps) + 1]
       IN  /\ watching' = (watching \/ step = "watch")
           /\ \E scanned \in (IF step = "scan"
                              THEN scan_for_gamepad_devices(files)
                              ELSE {gamepad_devices}) :
                 /\ gamepad_devices' = scanned
                 /\ det' = [det EXCEPT !.steps = Append(@, step),
                                       !.base = scanned]
    /\ pc' = IF Len(det.steps) + 1 = Len(DetectorNewSteps) THEN "detIdle" ELSE "detNew"
    /\ UNCHANGED <<clock, start_of_upcoming_iteration, blockResult, exitCode,
                   sigPending, files, inotifyQ, evq, readerGone, current_gamepad,
                   state, command, i2cLog, tick, fed, delivered, sched, prevExec,
                   initLog, call>>

\* detector.process_updates() on what the inotify descriptor holds
DetectorProcessUpdates ==
    /\ pc = "detIdle"
    /\ LET rd == KernelInotifyRead(inotifyQ, FALSE)
           r == process_updates(files, gamepad_devices, rd)
       IN  /\ gamepad_devices' = r.devices
           /\ inotifyQ' = Drop(inotifyQ, Len(rd.records))
           /\ det' = [det EXCEPT !.records = @ \o rd.records,
                                 !.batch = IF Contains(rd.records, OverflowRecord)
                                           THEN rd.records ELSE <<>>,
                                 !.queueAt = <<>>,
                                 !.returned = <<>>]
    /\ UNCHANGED <<pc, clock, start_of_upcoming_iteration, blockResult, exitCode,
                   sigPending, files, evq, readerGone, current_gamepad, state,
                   command, i2cLog, tick, fed, delivered, sched, prevExec,
                   watching, initLog, call>>

\* the calls of next_gamepad_device followed on one queue: one round, or two
\* calls on a queue of fewer than two paths
CallsFollowed(devices) == IF Len(devices) >= 2 THEN Len(devices) ELSE 2

\* detector.next_gamepad_device()
DetectorNextDevice ==
    /\ pc = "detIdle"
    /\ Len(det.returned) < CallsFollowed(gamepad_devices)
    /\ LET r == next_gamepad_device(gamepad_devices)
       IN  /\ gamepad_devices' = r.devices
           /\ det' = [det EXCEPT !.called = TRUE,
                                 !.queueAt = IF det.returned = <<>>
                                             THEN gamepad_devices ELSE @,
                                 !.returned = Append(@, r.path)]
    /\ UNCHANGED <<pc, clock, start_of_upcoming_iteration, blockResult, exitCode,
                   sigPending, files, inotifyQ, evq, readerGone, current_gamepad,
                   state, command, i2cLog, tick, fed, delivered, sched, prevExec,
                   watching, initLog, call>>

\* the files whose attributes change
TouchedNames == {js0}

\* the folder changes while the detector has records left to consume
FolderChanges(name) ==
    /\ Len(det.records) + Len(inotifyQ) < MaxFolderRecords
    /\ \/ Plug(name)
       \/ Unplug(name)
       \/ (name \in TouchedNames /\ Touch(name))

InitDetector ==
    /\ pc = "detNew"
    /\ clock = 0
    /\ start_of_upcoming_iteration = 0
    /\ blockResult = "None"
    /\ exitCode = -1
    /\ sigPending = <<>>
    /\ files \in [DeviceNames -> {"absent", "chr"}]
    /\ inotifyQ = <<>>
    /\ evq = <<>>
    /\ readerGone = FALSE
    /\ gamepad_devices = <<>>
    /\ current_gamepad = NoGamepad
    /\ state = GamepadState_new
    /\ command = NoCommand
    /\ i2cLog = <<>>
    /\ tick = FreshTick(GamepadState_new)
    /\ fed = <<>>
    /\ delivered = <<>>
    /\ sched = NoSched
    /\ prevExec = NoCommand
    /\ watching = FALSE
    /\ det = NoDet
    /\ initLog = <<>>
    /\ call = NoCall

NextDetector ==
    \/ DetectorSetupStep
    \/ DetectorProcessUpdates
    \/ DetectorNextDevice
    \/ \E name \in DeviceNames : FolderChanges(name)

SpecDetector == InitDetector /\ [][NextDetector]_vars

-----------------------------------------------------------------------------
(* Calls of next_gamepad_device on a queue that is not modified otherwise. *)

\* the queues of up to four device paths, none of them twice
RotationPaths == {PathJoin(GAMEPAD_DEVICE_FOLDER, n) : n \in {js0, js1, js2, js3}}
RotationQueues == UNION {Perms(S) : S \in SUBSET RotationPaths}

InitRotation ==
    /\ pc = "detIdle"
    /\ clock = 0
    /\ start_of_upcoming_iteration = 0
    /\ blockResult = "None"
    /\ exitCode = -1
    /\ sigPending = <<>>
    /\ files = [n \in DeviceNames |-> "absent"]
    /\ inotifyQ = <<>>
    /\ evq = <<>>
    /\ readerGone = FALSE
    /\ gamepad_devices \in RotationQueues
    /\ current_gamepad = NoGamepad
    /\ state = GamepadState_new
    /\ command = NoCommand
    /\ i2cLog = <<>>
    /\ tick = FreshTick(GamepadState_new)
    /\ fed = <<>>
    /\ delivered = <<>>
    /\ sched = NoSched
    /\ prevExec = NoCommand
    /\ watching = TRUE
    /\ det = NoDet
    /\ initLog = <<>>
    /\ call = NoCall

NextRotation == DetectorNextDevice

SpecRotation == InitRotation /\ [][NextRotation]_vars

-----------------------------------------------------------------------------
(* AnyGamepad alone: the folder changes, the reader comes and goes.        *)

\* what the kernel holds for the gamepad descriptor at a read: nothing, an
\* event, or the loss of the device; a descriptor just opened has no event yet
AnyFirstReads == {[q |-> <<>>, gone |-> FALSE], [q |-> <<>>, gone |-> TRUE]}
AnyReads ==
    AnyFirstReads \cup {[q |-> <<InputEvent(EV_ABS, ABS_RZ, 1023)>>, gone |-> FALSE]}

\* a directory is made in the watched folder
MakeDir(name) ==
    /\ GamepadTurn
    /\ files[name] = "absent"
    /\ watching
    /\ files' = [files EXCEPT ![name] = "dir"]
    /\ inotifyQ' = InotifyEnqueue(inotifyQ,
                                  InotifyRecord({"IN_CREATE", "IN_ISDIR"}, name))
    /\ UNCHANGED <<pc, clock, start_of_upcoming_iteration, blockResult, exitCode,
                   sigPending, evq, readerGone, gamepad_devices, current_gamepad,
                   state, command, i2cLog, tick, fed, delivered, sched, prevExec,
                   watching, det, initLog, call>>

\* the node of a device is unlinked: a descriptor open on it keeps
\* working as long as the device itself is there
Unlink(name) ==
    /\ GamepadTurn
    /\ files[name] = "chr"
    /\ watching
    /\ files' = [files EXCEPT ![name] = "absent"]
    /\ inotifyQ' = InotifyEnqueue(inotifyQ, InotifyRecord({"IN_DELETE"}, name))
    /\ UNCHANGED <<pc, clock, start_of_upcoming_iteration, blockResult, exitCode,
                   sigPending, evq, readerGone, gamepad_devices, current_gamepad,
                   state, command, i2cLog, tick, fed, delivered, sched, prevExec,
                   watching, det, initLog, call>>

\* any_gamepad.read_events(handler); det.records collects the inotify records
\* read, call keeps the outcome of the inotify read, the queue as process_updates
\* left it, the path tried, the events handed to the handler and the outcome of
\* the gamepad read
AnyGamepadRead ==
    /\ pc = "input"
    /\ \E inotifyFails \in BOOLEAN,
          permits \in IF current_gamepad.held THEN {TRUE} ELSE BOOLEAN,
          kernel \in IF current_gamepad.held THEN AnyReads ELSE AnyFirstReads :
         LET ird == KernelInotifyRead(inotifyQ, inotifyFails)
             r == AnyGamepad_read_events(files, gamepad_devices, current_gamepad,
                      ird, permits, kernel.q, kernel.gone)
         IN  /\ inotifyQ' = Drop(inotifyQ, Len(ird.records))
             /\ gamepad_devices' = r.devices
             /\ current_gamepad' = r.current
             /\ readerGone' = IF r.current.held THEN readerGone ELSE FALSE
             /\ det' = [det EXCEPT !.records = @ \o ird.records]
             /\ call' = [fn |-> "AnyGamepad::read_events",
                         folder |-> ird.kind,
                         updated |-> process_updates(files, gamepad_devices, ird).devices,
                         tried |-> r.tried, events |-> r.events, gamepad |-> r.read,
                         ok |-> r.ok]
             /\ pc' = IF r.ok THEN "input" ELSE "failed"
    /\ UNCHANGED <<clock, start_of_upcoming_iteration, blockResult, exitCode,
                   sigPending, files, evq, state, command, i2cLog, tick, fed,
                   delivered, sched, prevExec, watching, initLog>>

\* the folder changes while the records of its changes are few
AnyFolderChanges ==
    /\ Len(det.records) + Len(inotifyQ) < MaxFolderRecords
    /\ \/ \E name \in DeviceNames : Plug(name)
       \/ \E name \in {js0, js1} : Unlink(name)
       \/ \E name \in TouchedNames : Touch(name)
       \/ MakeDir(js1)

InitAnyGamepad ==
    /\ pc = "input"
    /\ clock = 0
    /\ start_of_upcoming_iteration = 0
    /\ blockResult = "None"
    /\ exitCode = -1
    /\ sigPending = <<>>
    /\ files = [n \in DeviceNames |-> IF n = js0 THEN "chr" ELSE "absent"]
    /\ inotifyQ = <<>>
    /\ evq = <<>>
    /\ readerGone = FALSE
    /\ gamepad_devices \in scan_for_gamepad_devices(files)
    /\ current_gamepad = NoGamepad
    /\ state = GamepadState_new
    /\ command = NoCommand
    /\ i2cLog = <<>>
    /\ tick = FreshTick(GamepadState_new)
    /\ fed = <<>>
    /\ delivered = <<>>
    /\ sched = NoSched
    /\ prevExec = NoCommand
    /\ watching = TRUE
    /\ det = NoDet
    /\ initLog = <<>>
    /\ call = NoCall

NextAnyGamepad ==
    \/ AnyGamepadRead
    \/ AnyFolderChanges

SpecAnyGamepad == InitAnyGamepad /\ [][NextAnyGamepad]_vars


-----------------------------------------------------------------------------
(* The folder monitor alone, on any records a read may return.             *)

\* a name whose field takes two header sizes
LongName == <<"j", "s", "-", "e", "v", "d", "e", "v", "1", "2", "3", "4", "5", "6", "7", "8">>
ParseNames == {<<>>, js0, LongName}
ParseMasks ==
    {{}, {"IN_CREATE"}, {"IN_MOVED_TO"}, {"IN_DELETE"}, {"IN_MOVED_FROM"},
     {"IN_ATTRIB"}, {"IN_IGNORED"}, {"IN_Q_OVERFLOW"},
     {"IN_CREATE", "IN_DELETE"}, {"IN_MOVED_FROM", "IN_ATTRIB"},
     {"IN_Q_OVERFLOW", "IN_CREATE"}}
ParseRecords == {InotifyRecord(mask, name) : mask \in ParseMasks, name \in ParseNames}

\* the kernel queues a record for the next read
FolderQueued(rec) ==
    /\ pc = "parse"
    /\ Len(inotifyQ) < InotifyBufferRecords
    /\ inotifyQ' = Append(inotifyQ, rec)
    /\ call' = NoCall
    /\ UNCHANGED <<pc, clock, start_of_upcoming_iteration, blockResult, exitCode,
                   sigPending, files, evq, readerGone, gamepad_devices,
                   current_gamepad, state, command, i2cLog, tick, fed, delivered,
                   sched, prevExec, watching, det, initLog>>

\* folder_monitor.process_filesystem_events(block) on what the read returns
FolderParse ==
    /\ pc = "parse"
    /\ \E fails \in BOOLEAN :
         LET rd == KernelInotifyRead(inotifyQ, fails)
             r == process_filesystem_events(GAMEPAD_DEVICE_FOLDER, rd)
         IN  /\ call' = [fn |-> "process_filesystem_events", read |-> rd, result |-> r]
             /\ inotifyQ' = Drop(inotifyQ, Len(rd.records))
    /\ UNCHANGED <<pc, clock, start_of_upcoming_iteration, blockResult, exitCode,
                   sigPending, files, evq, readerGone, gamepad_devices,
                   current_gamepad, state, command, i2cLog, tick, fed, delivered,
                   sched, prevExec, watching, det, initLog>>

InitParse ==
    /\ pc = "parse"
    /\ clock = 0
    /\ start_of_upcoming_iteration = 0
    /\ blockResult = "None"
    /\ exitCode = -1
    /\ sigPending = <<>>
    /\ files = [n \in DeviceNames |-> "absent"]
    /\ inotifyQ = <<>>
    /\ evq = <<>>
    /\ readerGone = FALSE
    /\ gamepad_devices = <<>>
    /\ current_gamepad = NoGamepad
    /\ state = GamepadState_new
    /\ command = NoCommand
    /\ i2cLog = <<>>
    /\ tick = FreshTick(GamepadState_new)
    /\ fed = <<>>
    /\ delivered = <<>>
    /\ sched = NoSched
    /\ prevExec = NoCommand
    /\ watching = TRUE
    /\ det = NoDet
    /\ initLog = <<>>
    /\ call = NoCall

NextParse ==
    \/ \E rec \in ParseRecords : FolderQueued(rec)
    \/ FolderParse

SpecParse == InitParse /\ [][NextParse]_vars


-----------------------------------------------------------------------------
(* AnyGamepad opening a device, on a queue the folder leaves alone.        *)

AttemptNames == {js0, js1, js2, js3}

\* a device file that is there but cannot be opened yet: "locked" in the file
\* system (udev has not set its permissions)
Openable(fs, path) == OpenSucceeds(fs, path, TRUE)

\* udev makes a device file accessible
AttemptUnlock(name) ==
    /\ pc = "attempts"
    /\ files[name] = "locked"
    /\ files' = [files EXCEPT ![name] = "chr"]
    /\ UNCHANGED <<pc, clock, start_of_upcoming_iteration, blockResult, exitCode,
                   sigPending, inotifyQ, evq, readerGone, gamepad_devices,
                   current_gamepad, state, command, i2cLog, tick, fed, delivered,
                   sched, prevExec, watching, det, initLog, call>>

\* any_gamepad.read_events(handler), no folder event and no gamepad event
\* waiting; call keeps the queue of the first call, the paths tried so far, the
\* number of calls that began without a reader and, for each path, how many of
\* them began with the path openable
AttemptRead ==
    /\ pc = "attempts"
    /\ call.calls < MaxAttempts
    /\ LET r == AnyGamepad_read_events(files, gamepad_devices, current_gamepad,
                    KernelInotifyRead(<<>>, FALSE), TRUE, <<>>, FALSE)
           free == ~current_gamepad.held
       IN  /\ gamepad_devices' = r.devices
           /\ current_gamepad' = r.current
           /\ call' = [call EXCEPT
                          !.calls = IF free THEN @ + 1 ELSE @,
                          !.tried = IF r.tried.some THEN Append(@, r.tried.path) ELSE @,
                          !.oks = @ /\ r.ok,
                          !.since = [p \in DOMAIN @ |->
                                        IF free /\ Openable(files, p) THEN @[p] + 1
                                        ELSE @[p]]]
    /\ UNCHANGED <<pc, clock, start_of_upcoming_iteration, blockResult, exitCode,
                   sigPending, files, inotifyQ, evq, readerGone, state, command,
                   i2cLog, tick, fed, delivered, sched, prevExec, watching, det,
                   initLog>>

InitAttempts ==
    /\ pc = "attempts"
    /\ clock = 0
    /\ start_of_upcoming_iteration = 0
    /\ blockResult = "None"
    /\ exitCode = -1
    /\ sigPending = <<>>
    /\ files = [n \in AttemptNames |-> "locked"]
    /\ inotifyQ = <<>>
    /\ evq = <<>>
    /\ readerGone = FALSE
    /\ gamepad_devices \in RotationQueues
    /\ current_gamepad = NoGamepad
    /\ state = GamepadState_new
    /\ command = NoCommand
    /\ i2cLog = <<>>
    /\ tick = FreshTick(GamepadState_new)
    /\ fed = <<>>
    /\ delivered = <<>>
    /\ sched = NoSched
    /\ prevExec = NoCommand
    /\ watching = TRUE
    /\ det = NoDet
    /\ initLog = <<>>
    /\ call = [fn |-> "AnyGamepad::read_events", queue |-> gamepad_devices,
               calls |-> 0, tried |-> <<>>, oks |-> TRUE,
               since |-> [p \in RotationPaths |-> 0]]

NextAttempts ==
    \/ \E name \in AttemptNames : AttemptUnlock(name)
    \/ AttemptRead

SpecAttempts == InitAttempts /\ [][NextAttempts]_vars

-----------------------------------------------------------------------------
(* Properties of the reader's recovery from dropped events.                *)

IsDropped(e) == e.type = EV_SYN /\ e.code = SYN_DROPPED
IsReport(e) == e.type = EV_SYN /\ e.code = SYN_REPORT

\* the event at position i of fed arrived after a SYN_DROPPED and before the
\* next SYN_REPORT
InDropWindow(i) ==
    \E j \in 1..(i - 1) :
        /\ IsDropped(fed[j].event)
        /\ \A k \in (j + 1)..(i - 1) : ~IsReport(fed[k].event)

DeliveredFrom(i) == {d \in 1..Len(delivered) : delivered[d].idx = i}

\* C1: no event is delivered for an input event that arrived after a
\* SYN_DROPPED and before the next SYN_REPORT, in whichever read_events call
\* each of them was consumed, and none is delivered for the SYN_DROPPED itself.
C1_NothingDeliveredWhileRecovering ==
    \A i \in 1..Len(fed) :
        (IsDropped(fed[i].event) \/ InDropWindow(i)) => DeliveredFrom(i) = {}

\* a SYN_DROPPED consumed by one call, a key press inside its window consumed
\* by a later call and not delivered, and a key press after the SYN_REPORT
\* that was delivered
C1_Witness ==
    \E i, j, k \in 1..Len(fed) :
        /\ i < j /\ j < k
        /\ IsDropped(fed[i].event)
        /\ fed[j].event.type = EV_KEY /\ InDropWindow(j)
        /\ fed[j].call > fed[i].call
        /\ DeliveredFrom(j) = {}
        /\ fed[k].event.type = EV_KEY /\ ~InDropWindow(k)
        /\ DeliveredFrom(k) # {}

\* the last SYN_DROPPED or SYN_REPORT consumed so far is a SYN_DROPPED
LastSyncIsDropped ==
    \E j \in 1..Len(fed) :
        /\ IsDropped(fed[j].event)
        /\ \A k \in (j + 1)..Len(fed) : ~IsReport(fed[k].event)

\* the button a key code stands for, for the codes of ReaderInputs
ButtonOf(code) == IF code = BTN_A THEN "A" ELSE "B"

\* the events consumed are SYN_DROPPED, then key and axis events only, then
\* SYN_REPORT, then one key press
DropNoiseReportKey ==
    /\ Len(fed) >= 3
    /\ IsDropped(fed[1].event)
    /\ \A i \in 2..(Len(fed) - 2) : fed[i].event.type \in {EV_KEY, EV_ABS}
    /\ IsReport(fed[Len(fed) - 1].event)
    /\ fed[Len(fed)].event.type = EV_KEY /\ fed[Len(fed)].event.value = 1

\* C2: the reader is recovering exactly from a SYN_DROPPED to the first
\* SYN_REPORT after it; every key press consumed outside such a window is
\* delivered as ButtonPressed of its button; and SYN_DROPPED, key and axis
\* noise, SYN_REPORT, key-down X delivers exactly ButtonPressed(X).
C2_RecoveryEndsAtFirstReport ==
    /\ current_gamepad.recovering_from_dropped <=> LastSyncIsDropped
    /\ \A i \in 1..Len(fed) :
          (fed[i].event.type = EV_KEY /\ ~InDropWindow(i)) =>
              \E d \in DeliveredFrom(i) :
                  delivered[d].event = ButtonPressed(ButtonOf(fed[i].event.code))
    /\ DropNoiseReportKey =>
          /\ Len(delivered) = 1
          /\ delivered[1].idx = Len(fed)
          /\ delivered[1].event = ButtonPressed(ButtonOf(fed[Len(fed)].event.code))

\* the sequence of the claim with a key press and an axis event as noise
C2_Witness ==
    /\ DropNoiseReportKey
    /\ Len(fed) = 5
    /\ fed[2].event.type = EV_KEY
    /\ fed[3].event.type = EV_ABS
    /\ ~current_gamepad.recovering_from_dropped
    /\ Len(delivered) = 1

-----------------------------------------------------------------------------
(* Properties of the schedule of the run loop.                             *)

\* the last KeepGoing iteration ended by its deadline
EndedInTime ==
    sched.decisions > 0 /\ sched.end <= sched.prevDeadline + RUNLOOP_INTERVAL

\* the last KeepGoing iteration ended after its deadline
Overran ==
    sched.decisions > 0 /\ sched.end > sched.prevDeadline + RUNLOOP_INTERVAL

\* C7: the deadline starts at the clock's time when the loop starts; over k
\* consecutive KeepGoing iterations that each end at or before their deadline
\* it advances by exactly k intervals; an iteration ending exactly at its
\* deadline is scheduled as one in time, with a sleep up to the new deadline.
C7_DeadlineAdvancesByInterval ==
    /\ (pc # "start" /\ sched.decisions = 0) =>
           start_of_upcoming_iteration = sched.startTime
    /\ pc # "start" =>
           start_of_upcoming_iteration = sched.base + sched.streak * RUNLOOP_INTERVAL
    /\ EndedInTime =>
           /\ sched.slept
           /\ start_of_upcoming_iteration = sched.prevDeadline + RUNLOOP_INTERVAL

\* two iterations in a row in time from a loop started late, the last one
\* ending exactly at its deadline
C7_Witness ==
    /\ sched.startTime = ClockStep
    /\ sched.streak = 2
    /\ sched.end = sched.prevDeadline + RUNLOOP_INTERVAL
    /\ start_of_upcoming_iteration = sched.startTime + 2 * RUNLOOP_INTERVAL
    /\ pc = "sleep"

\* C8: an iteration ending at t after its deadline sets the deadline to t and
\* is followed by the next iteration without a sleep; only such an iteration
\* is followed without a sleep; and the iteration after it, ending by
\* t + interval, is scheduled at t + interval with a sleep, whatever the
\* length of the overrun.
C8_OverrunResetsSchedule ==
    /\ Overran =>
           /\ start_of_upcoming_iteration = sched.end
           /\ ~sched.slept
           /\ pc # "sleep"
    /\ (sched.decisions > 0 /\ ~sched.slept) => Overran
    /\ (sched.overrunBefore >= 0 /\ sched.end <= sched.overrunBefore + RUNLOOP_INTERVAL) =>
           /\ start_of_upcoming_iteration = sched.overrunBefore + RUNLOOP_INTERVAL
           /\ sched.slept

\* an overrun of more than one interval, and the iteration after it asleep
\* until one interval after the overrun's end
C8_Witness ==
    /\ sched.overranByBefore > RUNLOOP_INTERVAL
    /\ sched.end <= sched.overrunBefore + RUNLOOP_INTERVAL
    /\ sched.slept
    /\ pc = "sleep"
    /\ start_of_upcoming_iteration = sched.overrunBefore + RUNLOOP_INTERVAL

-----------------------------------------------------------------------------
(* Properties of the PWM output.                                           *)

\* the last value written to a register in a log of writes, -1 when none
RECURSIVE RegValue(_, _)
RegValue(log, reg) ==
    IF log = <<>> THEN -1
    ELSE IF log[Len(log)].reg = reg THEN log[Len(log)].value
    ELSE RegValue(SubSeq(log, 1, Len(log) - 1), reg)

\* the 12-bit ON and OFF counts a log holds for a channel, -1 when the log
\* does not hold both bytes
OnCount(log, channel) ==
    IF RegValue(log, 6 + 4 * channel) < 0 \/ RegValue(log, 7 + 4 * channel) < 0 THEN -1
    ELSE RegValue(log, 6 + 4 * channel) + 256 * RegValue(log, 7 + 4 * channel)

OffCount(log, channel) ==
    IF RegValue(log, 8 + 4 * channel) < 0 \/ RegValue(log, 9 + 4 * channel) < 0 THEN -1
    ELSE RegValue(log, 8 + 4 * channel) + 256 * RegValue(log, 9 + 4 * channel)

IsPrefix(a, b) == Len(a) <= Len(b) /\ a = SubSeq(b, 1, Len(a))

\* the four register writes that set a channel to an OFF count with ON at 0
ChannelWrites(channel, off) ==
    <<[reg |-> 6 + 4 * channel, value |-> 0], [reg |-> 7 + 4 * channel, value |-> 0],
      [reg |-> 8 + 4 * channel, value |-> off % 256],
      [reg |-> 9 + 4 * channel, value |-> off \div 256]>>

\* the count of a duty fraction
DutyCount(duty) == RatRound(RatMul(duty, Rat(4095, 1)))

InDutyRange(duty) == RatLeq(Rat(5, 100), duty) /\ RatLeq(duty, Rat(10, 100))

\* C9: for every command in [-1, 1] x [-1, 1] the duty fractions of
\* execute_command lie in [0.05, 0.10]; the writes issued are, in order and up
\* to the first that fails, those of the throttle's duty on channel 0 and then
\* those of the steering's duty on channel 1; every ON count written is 0 and
\* every OFF count written lies in [205, 410].
C9_PwmRangeAndChannels ==
    pc = "blockDone" =>
        LET throttleDuty == locomotion_value_to_pwm_on_percentage(command.throttle)
            steeringDuty == locomotion_value_to_pwm_on_percentage(command.direction)
        IN  /\ InDutyRange(throttleDuty)
            /\ InDutyRange(steeringDuty)
            /\ IsPrefix(i2cLog, ChannelWrites(0, DutyCount(throttleDuty))
                                    \o ChannelWrites(1, DutyCount(steeringDuty)))
            /\ \A channel \in {0, 1} :
                  /\ Len(i2cLog) >= 4 * channel + 2 => OnCount(i2cLog, channel) = 0
                  /\ Len(i2cLog) >= 4 * channel + 4 =>
                         OffCount(i2cLog, channel) \in 205..410
            /\ blockResult = "KeepGoing" => Len(i2cLog) = 8

\* a command with different throttle and steering executed in full: reverse
\* at full throttle, steering half to the right
C9_Witness ==
    /\ pc = "blockDone" /\ blockResult = "KeepGoing"
    /\ RatEq(command.throttle, Rat(-1, 1))
    /\ RatEq(command.direction, Rat(1, 2))
    /\ OffCount(i2cLog, 0) = 410
    /\ OffCount(i2cLog, 1) = 256

\* the values the controller has been handed: those of the command and of
\* the command before it
HandedValues ==
    {command.throttle, command.direction}
        \cup (IF prevExec.valid
              THEN {prevExec.command.throttle, prevExec.command.direction} ELSE {})

\* C10: the duty of 0 is 0.075, of 1 is 0.05 and of -1 is 0.10; of v > 0 it is
\* 0.075 - 0.025 v and of v < 0 it is 0.075 + 0.025 |v|; of two values the
\* greater has the smaller duty; and the command (+1, -1) executed in full
\* writes OFF 205 on channel 0 and OFF 410 on channel 1.
C10_DutyMapping ==
    /\ \A v \in HandedValues :
          LET duty == locomotion_value_to_pwm_on_percentage(v)
          IN  /\ RatEq(v, Zero) => RatEq(duty, Rat(75, 1000))
              /\ RatEq(v, One) => RatEq(duty, Rat(5, 100))
              /\ RatEq(v, Rat(-1, 1)) => RatEq(duty, Rat(10, 100))
              /\ RatLess(Zero, v) =>
                     RatEq(duty, RatSub(Rat(75, 1000), RatMul(Rat(25, 1000), v)))
              /\ RatLess(v, Zero) =>
                     RatEq(duty, RatAdd(Rat(75, 1000), RatMul(Rat(25, 1000), RatAbs(v))))
    /\ \A v, w \in HandedValues :
          RatLess(v, w) => RatLess(locomotion_value_to_pwm_on_percentage(w),
                                   locomotion_value_to_pwm_on_percentage(v))
    /\ (/\ pc = "blockDone" /\ blockResult = "KeepGoing"
        /\ RatEq(command.throttle, One) /\ RatEq(command.direction, Rat(-1, 1))) =>
           /\ OffCount(i2cLog, 0) = 205
           /\ OffCount(i2cLog, 1) = 410

\* the command (+1, -1) executed in full after the neutral command
C10_Witness ==
    /\ pc = "blockDone" /\ blockResult = "KeepGoing"
    /\ RatEq(command.throttle, One) /\ RatEq(command.direction, Rat(-1, 1))
    /\ prevExec.valid
    /\ RatEq(prevExec.command.throttle, Zero)
    /\ OffCount(prevExec.log, 0) = 307
    /\ OffCount(i2cLog, 0) = 205
    /\ OffCount(i2cLog, 1) = 410

-----------------------------------------------------------------------------
(* Properties of a tick of the application.                                *)

\* the tick has handed a Disconnected event to the interpreter
DisconnectedDelivered ==
    \E i \in 1..Len(tick.events) : tick.events[i].kind = "Disconnected"

\* the writes of the neutral duty on both channels: OFF count 307 = 256 + 51
NeutralWrites == ChannelWrites(0, 307) \o ChannelWrites(1, 307)

\* C3: in a tick in which Disconnected is delivered the interpreter state is
\* all zeros, the command of that tick is (0, 0), and the PWM writes of that
\* tick are those of OFF count 307 with ON 0 on channel 0 and then channel 1,
\* all of them when the tick ends with KeepGoing, whatever the state was before.
C3_DisconnectedStopsVehicle ==
    DisconnectedDelivered =>
        /\ RatEq(state.left_trigger, Zero)
        /\ RatEq(state.right_trigger, Zero)
        /\ RatEq(state.left_stick_horizontal, Zero)
        /\ command.valid
        /\ RatEq(command.throttle, Zero)
        /\ RatEq(command.direction, Zero)
        /\ IsPrefix(i2cLog, NeutralWrites)
        /\ blockResult = "KeepGoing" => i2cLog = NeutralWrites

\* a tick that started with the right trigger pressed and the stick at the
\* left, was handed Disconnected, and ended with both channels at neutral
C3_Witness ==
    /\ DisconnectedDelivered
    /\ RatEq(tick.stateBefore.right_trigger, One)
    /\ RatEq(tick.stateBefore.left_stick_horizontal, Rat(-1, 1))
    /\ pc = "blockDone" /\ blockResult = "KeepGoing"
    /\ OffCount(i2cLog, 0) = 307
    /\ OffCount(i2cLog, 1) = 307

\* C4: after a tick's read of the held reader failed with an error other than
\* EAGAIN no reader is held, Disconnected is the event delivered, and
\* process_input went on to compute the command: the error is not returned.
\* After a read that failed with EAGAIN the reader is held and no event was
\* delivered.
C4_ReadErrorIsDisconnect ==
    /\ tick.read = "error" =>
           /\ ~current_gamepad.held
           /\ tick.events = <<Disconnected>>
           /\ tick.steps \in {<<"poll", "drain", "command">>,
                              <<"poll", "drain", "command", "execute">>}
           /\ pc \in {"execute", "blockDone"} => command.valid
    /\ tick.read = "eagain" =>
           /\ current_gamepad.held
           /\ tick.events = <<>>

\* a tick whose read failed and which ended with KeepGoing
C4_Witness ==
    /\ tick.read = "error"
    /\ ~current_gamepad.held
    /\ tick.events = <<Disconnected>>
    /\ tick.steps = <<"poll", "drain", "command", "execute">>
    /\ pc = "blockDone" /\ blockResult = "KeepGoing"

\* the signal poll of the tick read a SIGTERM or a SIGINT
TerminateFound == tick.signo \in {SIGTERM, SIGINT}

\* C5: a tick whose poll finds SIGTERM or SIGINT returns Conclude with no
\* drain of the gamepad and no PWM write; the loop then returns Ok with no
\* sleep and no further tick, and the exit code is 0.
C5_TerminateConcludes ==
    TerminateFound =>
        /\ tick.signal = "Terminate"
        /\ tick.steps = <<"poll">>
        /\ tick.events = <<>> /\ tick.read = "none"
        /\ i2cLog = <<>>
        /\ blockResult = "Conclude"
        /\ pc \in {"blockDone", "returnedOk", "exit"}
        /\ pc = "exit" => exitCode = 0

\* the process has exited on a SIGINT found after ticks that moved the vehicle
C5_Witness ==
    /\ tick.signo = SIGINT
    /\ pc = "exit" /\ exitCode = 0
    /\ sched.decisions > 0
    /\ RatEq(state.right_trigger, One)

\* C6 as stated: the process is never suspended in the read of the signal
\* descriptor; a tick with no signal pending goes on past its poll.
C6_PollNeverBlocks ==
    ~(pc = "sigwait" /\ sigPending = <<>>)


-----------------------------------------------------------------------------
(* Properties of the detector's queue.                                     *)

DevicePath(name) == PathJoin(GAMEPAD_DEVICE_FOLDER, name)

\* the folder events of the records the detector has processed so far
ProcessedEvents == RecordsEvents(GAMEPAD_DEVICE_FOLDER, det.records)

NoDuplicates(seq) == \A i, j \in 1..Len(seq) : seq[i] = seq[j] => i = j

\* C11: whatever the scan found and whatever folder events and
\* next_gamepad_device calls followed, no path is in the detector's queue twice.
C11_QueueHasNoDuplicates == NoDuplicates(gamepad_devices)

\* a device the scan had found was reported as added afterwards, and is queued
C11_Witness ==
    \E name \in DeviceNames :
        /\ Contains(det.base, DevicePath(name))
        /\ Contains(ProcessedEvents, Added(DevicePath(name)))
        /\ Contains(gamepad_devices, DevicePath(name))
        /\ det.called


\* the paths of the folder whose names match ^js-evdev\d*$
EligiblePaths == {DevicePath(js0), DevicePath(js1)}

IndicesOf(events, event) == {i \in 1..Len(events) : events[i] = event}

\* the eligible paths with an Added event, and those of them with a Removed
\* event after an Added event
AddedPaths == {p \in EligiblePaths : IndicesOf(ProcessedEvents, Added(p)) # {}}
RemovedPaths ==
    {p \in AddedPaths :
        \E i \in IndicesOf(ProcessedEvents, Added(p)) :
        \E j \in IndicesOf(ProcessedEvents, Removed(p)) : i < j}

\* the detector started on an empty queue and has only processed folder events
OnlyFolderEvents == det.base = <<>> /\ ~det.called

NoOverflowProcessed == IndicesOf(ProcessedEvents, EventQueueOverflowed) = {}

\* the Added events of p that no later Removed event of p and no later overflow undoes
InsertingIn(events, p) ==
    {i \in IndicesOf(events, Added(p)) :
        \A j \in (i + 1)..Len(events) :
            events[j] \notin {Removed(p), EventQueueOverflowed}}

Inserting(p) == InsertingIn(ProcessedEvents, p)

SetMin(S) == CHOOSE x \in S : \A y \in S : x <= y

\* no path is added again after it was added and removed
NotAddedAgain ==
    \A p \in EligiblePaths :
        \A i, k \in IndicesOf(ProcessedEvents, Added(p)) :
        \A j \in IndicesOf(ProcessedEvents, Removed(p)) : ~(i < j /\ j < k)

\* C12 as stated: on an initially empty queue, after Added events for n distinct
\* eligible paths and Removed events matching m of them (each after an Added
\* event of its path), the queue holds exactly n - m paths.
C12_QueueHoldsAddedMinusRemoved ==
    (OnlyFolderEvents /\ NoOverflowProcessed)
        => Len(gamepad_devices) = Cardinality(AddedPaths) - Cardinality(RemovedPaths)

\* C12, amended: on an initially empty queue, after any sequence of folder events
\* the queue holds exactly the eligible paths with an Added event that no later
\* Removed event of the path and no later overflow undoes, in the order of the
\* first such Added event of each; these are n - m paths when no path is added
\* again after its removal and no overflow is processed.
C12_QueueIsSurvivingAddsInOrder ==
    OnlyFolderEvents =>
        /\ \A p \in EligiblePaths : Contains(gamepad_devices, p) <=> Inserting(p) # {}
        /\ \A i \in 1..Len(gamepad_devices) : gamepad_devices[i] \in EligiblePaths
        /\ \A i, j \in 1..Len(gamepad_devices) :
               i < j => SetMin(Inserting(gamepad_devices[i]))
                            < SetMin(Inserting(gamepad_devices[j]))
        /\ (NotAddedAgain /\ NoOverflowProcessed)
               => Len(gamepad_devices)
                      = Cardinality(AddedPaths) - Cardinality(RemovedPaths)

\* js0 was added, removed and added again after js1: the queue is js1, js0
C12_Witness ==
    /\ OnlyFolderEvents
    /\ NoOverflowProcessed
    /\ gamepad_devices = <<DevicePath(js1), DevicePath(js0)>>
    /\ IndicesOf(ProcessedEvents, Removed(DevicePath(js0))) # {}
    /\ Cardinality(IndicesOf(ProcessedEvents, Added(DevicePath(js0)))) = 2


\* seq rotated left by n places
RotatedLeft(seq, n) ==
    [i \in 1..Len(seq) |-> seq[((i - 1 + n) % Len(seq)) + 1]]

\* C13: on a queue of k >= 2 paths that is not modified otherwise, each call of
\* next_gamepad_device rotates the queue left by one place and returns the new
\* head, so k consecutive calls return each member exactly once; on a queue of
\* one path every call returns that path and leaves the queue as it is; on an
\* empty queue every call returns none.
C13_NextDeviceRoundRobin ==
    LET q == det.queueAt
        k == Len(q)
        r == det.returned
    IN  r # <<>> =>
          /\ k >= 2 =>
               /\ \A i \in 1..Len(r) : r[i] = SomePath(q[(i % k) + 1])
               /\ gamepad_devices = RotatedLeft(q, Len(r))
               /\ Len(r) = k =>
                    \A j \in 1..k : Cardinality(IndicesOf(r, SomePath(q[j]))) = 1
          /\ k = 1 =>
               /\ \A i \in 1..Len(r) : r[i] = SomePath(q[1])
               /\ gamepad_devices = q
          /\ k = 0 =>
               /\ \A i \in 1..Len(r) : r[i] = NoPath
               /\ gamepad_devices = <<>>

\* a full round of calls on a queue of four paths
C13_Witness ==
    /\ Len(det.queueAt) = 4
    /\ Len(det.returned) = 4
    /\ det.returned[1] = SomePath(det.queueAt[2])
    /\ gamepad_devices = det.queueAt


\* the folder events of the records read by the last process_updates call, when
\* an overflow record was among them
BatchEvents == RecordsEvents(GAMEPAD_DEVICE_FOLDER, det.batch)

\* C14: a processed EventQueueOverflowed empties the queue, and process_updates
\* returns Ok on a batch that holds one; from then on the queue holds only paths
\* with a later eligible Added event, so next_gamepad_device returns none until
\* such an event is processed; the Added events that follow the overflow record
\* in its batch are appended after the clear.
C14_OverflowClearsQueue ==
    /\ IndicesOf(ProcessedEvents, EventQueueOverflowed) # {} =>
          /\ \A i \in 1..Len(gamepad_devices) :
                 /\ gamepad_devices[i] \in EligiblePaths
                 /\ Inserting(gamepad_devices[i]) # {}
          /\ \A p \in EligiblePaths : Inserting(p) # {} => Contains(gamepad_devices, p)
          /\ (\A p \in EligiblePaths : Inserting(p) = {}) =>
                 /\ gamepad_devices = <<>>
                 /\ \A i \in 1..Len(det.returned) : det.returned[i] = NoPath
    /\ (IndicesOf(BatchEvents, EventQueueOverflowed) # {} /\ det.returned = <<>>) =>
          /\ \A p \in EligiblePaths :
                 Contains(gamepad_devices, p) <=> InsertingIn(BatchEvents, p) # {}
          /\ \A i, j \in 1..Len(gamepad_devices) :
                 i < j => SetMin(InsertingIn(BatchEvents, gamepad_devices[i]))
                              < SetMin(InsertingIn(BatchEvents, gamepad_devices[j]))
    /\ LET rd == KernelInotifyRead(inotifyQ, FALSE)
       IN  Contains(rd.records, OverflowRecord) =>
               process_updates(files, gamepad_devices, rd).ok

\* the scan had found a device, a batch of an overflow record followed by the
\* IN_CREATE of another device was processed, and the queue holds only the latter
C14_Witness ==
    /\ det.base = <<DevicePath(js0)>>
    /\ det.batch = <<OverflowRecord, InotifyRecord({"IN_CREATE"}, js1)>>
    /\ gamepad_devices = <<DevicePath(js1)>>
    /\ files[js0] = "chr"


\* the inotify queue holds a record of the file `name`
RecordPending(name) == \E i \in 1..Len(inotifyQ) : inotifyQ[i].name = name

\* the detector is set up, the device file is there, and every record queued
\* for it has been read
PresentAndRead(name) ==
    /\ pc = "detIdle"
    /\ files[name] = "chr"
    /\ DevicePath(name) \in EligiblePaths
    /\ ~RecordPending(name)

\* the scan has found the file, or a process_updates call has read its event,
\* and no removal of it has been reported
SeenByDetector(name) ==
    /\ \/ Contains(det.base, DevicePath(name))
       \/ Contains(ProcessedEvents, Added(DevicePath(name)))
    /\ ~Contains(ProcessedEvents, Removed(DevicePath(name)))

\* C15 as stated: for every interleaving of file creations with the setup, an
\* eligible device file that is there once the setup and the process_updates
\* call reading its event have run is in the queue.
C15_PresentDeviceIsQueued ==
    \A name \in DeviceNames :
        (PresentAndRead(name) /\ SeenByDetector(name))
            => Contains(gamepad_devices, DevicePath(name))

\* C15, amended: the same, as long as the inotify queue has not overflowed (no
\* overflow record has been processed or is waiting to be read).
C15_PresentDeviceIsQueuedUnlessOverflow ==
    (NoOverflowProcessed /\ ~Contains(inotifyQ, OverflowRecord)) =>
        \A name \in DeviceNames :
            PresentAndRead(name) => Contains(gamepad_devices, DevicePath(name))

\* js0 was created while the detector was set up (the scan found it and its
\* IN_CREATE record was read afterwards), js1 was created after the setup
C15_Witness ==
    /\ PresentAndRead(js0)
    /\ PresentAndRead(js1)
    /\ NoOverflowProcessed
    /\ ~Contains(inotifyQ, OverflowRecord)
    /\ det.base = <<DevicePath(js0)>>
    /\ det.records = <<InotifyRecord({"IN_CREATE"}, js0), InotifyRecord({"IN_CREATE"}, js1)>>
    /\ gamepad_devices = <<DevicePath(js0), DevicePath(js1)>>


-----------------------------------------------------------------------------
(* Properties of the errors of a tick.                                     *)

\* the read of the tick's signal poll failed
PollFailed == tick.fault # "none"

\* a register write of the tick's execute_command failed
WriteFailed == tick.okWrites \in 0..(WritesPerCommand - 1)

\* the tick has returned an error and the program is on its way out: at the
\* return of the block, at the return of start_runloop, or at the exit with code 1
ErrorEndsProgram ==
    /\ blockResult = "Err"
    /\ pc \in {"blockDone", "returnedErr", "exit"}
    /\ pc = "exit" => exitCode = 1
    /\ pc # "exit" => exitCode = -1

\* C16: an error of the signal read or of a PWM register write inside a tick is
\* returned by the tick, and start_runloop returns it at once, without another
\* tick and without a sleep; the program exits with code 1.
C16_TickErrorIsFatal ==
    /\ PollFailed =>
          /\ ErrorEndsProgram
          /\ tick.steps = <<"poll">>
          /\ i2cLog = <<>>
    /\ WriteFailed =>
          /\ ErrorEndsProgram
          /\ tick.steps = <<"poll", "drain", "command", "execute">>
          /\ Len(i2cLog) = tick.okWrites

\* the sixth register write of a tick failed and the program has exited
C16_Witness ==
    /\ tick.okWrites = 5
    /\ Len(i2cLog) = 5
    /\ pc = "exit"
    /\ exitCode = 1


\* C17: a read of the inotify descriptor that fails with EAGAIN makes
\* process_filesystem_events return Ok without an event, and the tick goes on;
\* any other failure is an error that process_updates and
\* AnyGamepad::read_events pass on, so the tick fails before a gamepad is read
\* and before a PWM register is written, and the program ends with code 1.
C17_InotifyReadErrorIsFatal ==
    /\ tick.folder = "error" =>
          /\ ErrorEndsProgram
          /\ tick.steps = <<"poll", "drain">>
          /\ tick.read = "none"
          /\ tick.events = <<>>
          /\ state = tick.stateBefore
          /\ command = NoCommand
          /\ i2cLog = <<>>
    /\ tick.folder = "eagain" =>
          /\ SubSeq(tick.steps, 1, 3) = <<"poll", "drain", "command">>
          /\ blockResult = "Err" => WriteFailed
    /\ LET failed == AnyGamepad_read_events(files, gamepad_devices, current_gamepad,
                         KernelInotifyRead(inotifyQ, TRUE), TRUE, evq, readerGone)
           nothing == process_filesystem_events(GAMEPAD_DEVICE_FOLDER,
                          KernelInotifyRead(<<>>, FALSE))
       IN  /\ ~failed.ok
           /\ failed.read = "none"
           /\ failed.events = <<>>
           /\ failed.current = current_gamepad
           /\ failed.devices = gamepad_devices
           /\ nothing = [ok |-> TRUE, events |-> <<>>]

\* a tick of a program that holds a gamepad failed in the inotify read, and the
\* program has exited
C17_Witness ==
    /\ tick.folder = "error"
    /\ current_gamepad.held
    /\ pc = "exit"
    /\ exitCode = 1


-----------------------------------------------------------------------------
(* Properties of the locomotion command.                                   *)

\* -1 <= v <= 1, for v = n/d with d > 0
InUnitInterval(v) == v.d > 0 /\ -v.d <= v.n /\ v.n <= v.d
InZeroOne(v) == v.d > 0 /\ 0 <= v.n /\ v.n <= v.d

\* the command at hand was built by process_input
BuiltByProcessInput == tick.steps = <<"drain", "command">>

\* C18: LocomotionCommand::new accepts exactly the pairs of [-1, 1] x [-1, 1] and
\* panics on every other pair; the command process_input builds (throttle =
\* right_trigger - left_trigger, direction = left_stick_horizontal) is always
\* within these bounds, so its assertions never fire.
C18_CommandAlwaysInBounds ==
    /\ command # NoCommand =>
          /\ command.valid <=> (InUnitInterval(command.throttle)
                                 /\ InUnitInterval(command.direction))
          /\ pc = "panic" <=> ~command.valid
    /\ command = NoCommand => pc # "panic"
    /\ BuiltByProcessInput =>
          /\ InZeroOne(state.right_trigger)
          /\ InZeroOne(state.left_trigger)
          /\ InUnitInterval(state.left_stick_horizontal)
          /\ command.throttle = RatSub(state.right_trigger, state.left_trigger)
          /\ command.direction = state.left_stick_horizontal
          /\ command.valid
          /\ pc # "panic"

\* process_input built the command (-1, -1) after the stick reported a raw
\* value below its range
C18_Witness ==
    /\ BuiltByProcessInput
    /\ tick.events = <<StickAdjusted("Left", "Horizontal", Rat(-1, 1))>>
    /\ command = LocomotionCommand_new(Rat(-1, 1), Rat(-1, 1))
    /\ state.left_trigger = One
    /\ state.right_trigger = Zero


-----------------------------------------------------------------------------
(* Properties of the order of a tick.                                      *)

TickOrder == <<"poll", "drain", "command", "execute">>

\* C19: a tick takes its steps once each and in the order signal poll, gamepad
\* event drain, command computation, PWM writes; in a tick that returns
\* KeepGoing all of them were taken, the writes are those of the throttle on
\* channel 0 followed by those of the steering on channel 1, and the command is
\* the one of the interpreter state, which a tick without gamepad events leaves
\* as it was.
C19_TickStepsInOrder ==
    /\ IsPrefix(tick.steps, TickOrder)
    /\ blockResult = "KeepGoing" =>
          /\ tick.steps = TickOrder
          /\ command.valid
          /\ command.throttle = RatSub(state.right_trigger, state.left_trigger)
          /\ command.direction = state.left_stick_horizontal
          /\ i2cLog = ChannelWrites(PCA9685_THROTTLE_CHANNEL,
                          DutyCount(locomotion_value_to_pwm_on_percentage(command.throttle)))
                      \o ChannelWrites(PCA9685_STEERING_CHANNEL,
                          DutyCount(locomotion_value_to_pwm_on_percentage(command.direction)))
          /\ [i \in 1..Len(i2cLog) |-> i2cLog[i].reg] = <<6, 7, 8, 9, 10, 11, 12, 13>>
          /\ tick.events = <<>> => state = tick.stateBefore

\* a tick without gamepad events has written the command of a state in which
\* the throttle and the steering differ
C19_Witness ==
    /\ blockResult = "KeepGoing"
    /\ tick.events = <<>>
    /\ state # GamepadState_new
    /\ command.throttle # command.direction
    /\ Len(i2cLog) = WritesPerCommand


-----------------------------------------------------------------------------
(* Properties of the set-up of the PCA9685.                                *)

IsRegisterWrite(entry) == "reg" \in DOMAIN entry
IsSleep(entry) == "sleep" \in DOMAIN entry

\* the entry is a write to one of the LEDn_ON/OFF registers, 0x06 to 0x45
IsLedWrite(entry) == IsRegisterWrite(entry) /\ entry.reg \in 6..69

\* the write sets MODE1, with the SLEEP bit (0x10) set or clear
IsMode1Write(entry) == IsRegisterWrite(entry) /\ entry.reg = 0
SetsSleep(entry) == IsMode1Write(entry) /\ (entry.value \div 16) % 2 = 1

\* the entries of PCA9685Driver::new in a log: its writes and the pause
SetupLength == DriverSetupWrites + 1

\* C20: PCA9685Driver::new writes MODE1 = 0x11, MODE2 = 0x04, PRESCALE and
\* MODE1 = 0x01 in this order and then pauses for at least 500 microseconds;
\* PRESCALE is written only while the SLEEP bit is set; no LEDn register is
\* written before the wake-up write and the pause; a failing write ends the
\* call with an error and none of the later writes is issued.
C20_DriverSetupOrder ==
    /\ Len(initLog) >= 1 => initLog[1] = [reg |-> 0, value |-> 17]
    /\ Len(initLog) >= 2 => initLog[2] = [reg |-> 1, value |-> 4]
    /\ Len(initLog) >= 3 => IsRegisterWrite(initLog[3]) /\ initLog[3].reg = 254
    /\ Len(initLog) >= 4 => initLog[4] = [reg |-> 0, value |-> 1]
    /\ Len(initLog) >= 5 => IsSleep(initLog[5]) /\ initLog[5].sleep >= 500
    /\ \A i \in 1..Len(initLog) :
          /\ IsLedWrite(initLog[i]) => i > SetupLength
          /\ i > SetupLength => IsLedWrite(initLog[i])
          /\ (IsRegisterWrite(initLog[i]) /\ initLog[i].reg = 254) =>
                \E j \in 1..(i - 1) :
                    /\ SetsSleep(initLog[j])
                    /\ \A k \in (j + 1)..(i - 1) : ~IsMode1Write(initLog[k])
    /\ pc \in {"ctorEsc", "execute"} => Len(initLog) >= SetupLength
    /\ i2cLog # <<>> => Len(initLog) = SetupLength + 4
    /\ pc = "ctorErr" =>
          /\ Len(initLog) < SetupLength + 4
          /\ Len(initLog) # 4
          /\ i2cLog = <<>>
          /\ command = NoCommand

\* the set-up went through, the ESC was initialised with the centre duty and
\* the first command has been written
C20_Witness ==
    /\ Len(initLog) = SetupLength + 4
    /\ initLog[3] = [reg |-> 254, value |-> 121]
    /\ OffCount(SubSeq(initLog, SetupLength + 1, Len(initLog)), 0) = 307
    /\ Len(i2cLog) = WritesPerCommand


-----------------------------------------------------------------------------
(* Properties of set_pwm_on_percentage.                                    *)

\* round(p * 4095) of a fraction p = n/d >= 0, halves rounded up
CountOf(p) == (2 * 4095 * p.n + p.d) \div (2 * p.d)

\* C21: set_pwm_on_percentage on a channel c in 0..15 and a percentage p in
\* [0, 1] writes ON_L = 0x06 + 4c, ON_H = 0x07 + 4c, OFF_L = 0x08 + 4c and
\* OFF_H = 0x09 + 4c in this order, with the values 0, 0 and the low and the
\* high byte of round(p * 4095), up to the first write that fails; the count is
\* at most 4095 and the high byte at most 0x0F; on any other channel or
\* percentage it panics before a register is written.
C21_SetPwmRegisters ==
    call.fn = "set_pwm_on_percentage" =>
        LET c == call.channel
            p == call.percentage
            accepted == c \in 0..15 /\ InZeroOne(p)
        IN  /\ accepted =>
                 /\ pc # "panic"
                 /\ CountOf(p) \in 0..4095
                 /\ CountOf(p) \div 256 <= 15
                 /\ i2cLog = SubSeq(ChannelWrites(c, CountOf(p)), 1, call.okWrites)
                 /\ call.ok <=> Len(i2cLog) = 4
            /\ ~accepted =>
                 /\ pc = "panic"
                 /\ i2cLog = <<>>
                 /\ ~call.ok

\* channel 15 was set to the full percentage: registers 0x42 to 0x45
C21_Witness ==
    /\ call.fn = "set_pwm_on_percentage"
    /\ call.channel = 15
    /\ call.percentage = One
    /\ i2cLog = <<[reg |-> 66, value |-> 0], [reg |-> 67, value |-> 0],
                  [reg |-> 68, value |-> 255], [reg |-> 69, value |-> 15]>>


-----------------------------------------------------------------------------
(* Properties of the construction of the locomotion controller.            *)

\* what the bus has seen once the set-up of the PCA9685 is through
AfterSetup == SubSeq(initLog, SetupLength + 1, Len(initLog))

\* the construction is over and did not go through
ConstructionFailed ==
    /\ pc \notin {"ctorDriver", "ctorEsc"}
    /\ Len(initLog) < SetupLength + 4

\* C22: LocomotionController::new first completes the set-up of the PCA9685 and
\* then writes the centre duty, OFF count 307, to the throttle channel 0; it
\* does not write the steering channel; no command is executed before both are
\* done; when either fails the program ends with an error and no tick runs.
C22_ControllerArmsThrottleFirst ==
    /\ IsPrefix(AfterSetup, ChannelWrites(0, 307))
    /\ \A i \in 1..Len(initLog) :
          IsRegisterWrite(initLog[i]) => initLog[i].reg \notin 10..13
    /\ (pc = "execute" \/ i2cLog # <<>> \/ tick.steps # <<>>) =>
          /\ Len(initLog) = SetupLength + 4
          /\ AfterSetup = ChannelWrites(0, 307)
    /\ ConstructionFailed =>
          /\ pc \in {"ctorErr", "returnedErr", "exit"}
          /\ pc = "exit" => exitCode = 1
          /\ tick.steps = <<>>
          /\ i2cLog = <<>>
          /\ command = NoCommand
          /\ blockResult = "None"

\* the third write of the centre duty failed and the program has exited
C22_Witness ==
    /\ Len(initLog) = SetupLength + 2
    /\ pc = "exit"
    /\ exitCode = 1
    /\ tick.steps = <<>>


-----------------------------------------------------------------------------
(* Properties of the interpreter state.                                    *)

\* the events handed to the interpreter since the last Disconnected
RECURSIVE SinceDisconnected(_)
SinceDisconnected(events) ==
    IF events = <<>> THEN <<>>
    ELSE IF events[Len(events)] = Disconnected THEN <<>>
    ELSE Append(SinceDisconnected(SubSeq(events, 1, Len(events) - 1)),
                events[Len(events)])

IsLeftTrigger(e) == e.kind = "TriggerAdjusted" /\ e.trigger = "Left"
IsRightTrigger(e) == e.kind = "TriggerAdjusted" /\ e.trigger = "Right"
IsLeftHorizontal(e) ==
    e.kind = "StickAdjusted" /\ e.stick = "Left" /\ e.axis = "Horizontal"

\* the value of the last event of `events` that satisfies Is, zero if none does
LastValue(events, Is(_)) ==
    LET at == {i \in 1..Len(events) : Is(events[i])}
    IN  IF at = {} THEN Zero
        ELSE events[CHOOSE i \in at : \A j \in at : j <= i].value

\* C23: after process_input has drained the events of a tick, each field of the
\* interpreter state holds the value of the last event for it since the last
\* Disconnected, over all ticks so far, or zero when there is none, and the
\* command returned has throttle = right_trigger - left_trigger and direction =
\* left_stick_horizontal.
C23_StateIsLastValues ==
    LET since == SinceDisconnected(delivered)
    IN  /\ state.right_trigger = LastValue(since, IsRightTrigger)
        /\ state.left_trigger = LastValue(since, IsLeftTrigger)
        /\ state.left_stick_horizontal = LastValue(since, IsLeftHorizontal)
        /\ BuiltByProcessInput =>
              /\ command.valid
              /\ command.throttle
                     = RatSub(LastValue(since, IsRightTrigger),
                              LastValue(since, IsLeftTrigger))
              /\ command.direction = LastValue(since, IsLeftHorizontal)

\* the right trigger was set twice in a tick before the last one, after a
\* Disconnected, and the last tick has handed over nothing
C23_Witness ==
    /\ BuiltByProcessInput
    /\ tick.events = <<>>
    /\ Len(delivered) = 4
    /\ delivered[1].kind = "StickAdjusted"
    /\ delivered[2] = Disconnected
    /\ delivered[3] = TriggerAdjusted("Right", One)
    /\ IsRightTrigger(delivered[4])
    /\ delivered[4].value # One
    /\ command.throttle = delivered[4].value
    /\ command.direction = Zero


\* the one event process_input has just handed to its handler
HandledAlone(e) == BuiltByProcessInput /\ tick.events = <<e>>

SameBut(field) ==
    \A f \in {"right_trigger", "left_trigger", "left_stick_horizontal"} \ {field} :
        state[f] = tick.stateBefore[f]

\* C24: a ButtonPressed, a DpadAdjusted and a StickAdjusted other than (Left,
\* Horizontal) leave the three fields of the interpreter state as they were;
\* StickAdjusted(Left, Horizontal) changes left_stick_horizontal alone,
\* TriggerAdjusted(Left) left_trigger alone, TriggerAdjusted(Right) right_trigger
\* alone.
C24_HandlerFrame ==
    \A e \in {tick.events[i] : i \in 1..Len(tick.events)} :
        HandledAlone(e) =>
            /\ e.kind \in {"ButtonPressed", "DpadAdjusted"} => state = tick.stateBefore
            /\ e.kind = "StickAdjusted" /\ ~IsLeftHorizontal(e) =>
                   state = tick.stateBefore
            /\ IsLeftHorizontal(e) =>
                   state = [tick.stateBefore EXCEPT !.left_stick_horizontal = e.value]
            /\ IsLeftTrigger(e) =>
                   state = [tick.stateBefore EXCEPT !.left_trigger = e.value]
            /\ IsRightTrigger(e) =>
                   state = [tick.stateBefore EXCEPT !.right_trigger = e.value]

\* the right stick moved while all three fields were set, and none changed
C24_Witness ==
    /\ HandledAlone(StickAdjusted("Right", "Horizontal", One))
    /\ tick.stateBefore.right_trigger = One
    /\ tick.stateBefore.left_trigger = Rat(512, 1023)
    /\ tick.stateBefore.left_stick_horizontal = Rat(-1, 1)
    /\ SameBut("none")


-----------------------------------------------------------------------------
(* Properties of the decoding.                                             *)

\* the reader in the Normal state has read one event of this type
DecodedNormally(type) ==
    /\ call.fn = "Gamepad::read_events"
    /\ ~call.recovering
    /\ call.event.type = type

\* value = n / d, for d > 0
IsQuotient(value, n, d) == value.n * d = n * value.d

\* what a raw value divided by `full` becomes behind the dead zone
BehindDeadZone(value, raw, full) ==
    IF 100 * Abs(raw) < 15 * full THEN value = Zero ELSE IsQuotient(value, raw, full)

\* C25: for every raw 32-bit value v of a stick axis the value emitted is in
\* [-1, 1]: exactly -1 for v <= -32768, exactly 1 for v >= 32767, otherwise
\* v/32768 for v < 0 and v/32767 for v >= 0, replaced by 0 when its magnitude is
\* below 0.15, which is the case for the raw values -4915..4915.
C25_StickValue ==
    DecodedNormally(EV_ABS) /\ call.event.code \in StickCodes =>
        /\ Len(call.emitted) = 1
        /\ call.emitted[1].kind = "StickAdjusted"
        /\ LET v == call.event.value
               value == call.emitted[1].value
           IN  /\ value.d > 0
               /\ -value.d <= value.n /\ value.n <= value.d
               /\ v <= -32768 => value = Rat(-1, 1)
               /\ v >= 32767 => value = One
               /\ -32768 < v /\ v < 0 => BehindDeadZone(value, v, 32768)
               /\ 0 <= v /\ v < 32767 => BehindDeadZone(value, v, 32767)
               /\ -4915 <= v /\ v <= 4915 <=> value = Zero

\* ABS_Y = 3000 came out as a stick value of 0
C25_Witness ==
    /\ DecodedNormally(EV_ABS)
    /\ call.event = InputEvent(EV_ABS, ABS_Y, 3000)
    /\ call.emitted = <<StickAdjusted("Left", "Vertical", Zero)>>


\* C26: for every raw 32-bit value v of a trigger the value emitted is in
\* [0, 1]: 0 for v <= 0, 1 for v >= 1023, otherwise v/1023, replaced by 0 when
\* below 0.15, which is the case for the raw values up to 153.
C26_TriggerValue ==
    DecodedNormally(EV_ABS) /\ call.event.code \in TriggerCodes =>
        /\ Len(call.emitted) = 1
        /\ call.emitted[1].kind = "TriggerAdjusted"
        /\ LET v == call.event.value
               value == call.emitted[1].value
           IN  /\ value.d > 0
               /\ 0 <= value.n /\ value.n <= value.d
               /\ v <= 0 => value = Zero
               /\ v >= 1023 => value = One
               /\ 0 < v /\ v < 1023 => BehindDeadZone(value, v, 1023)
               /\ v <= 153 <=> value = Zero

\* the right trigger at 153 came out as 0
C26_Witness ==
    /\ DecodedNormally(EV_ABS)
    /\ call.event = InputEvent(EV_ABS, ABS_RZ, 153)
    /\ call.emitted = <<TriggerAdjusted("Right", Zero)>>

\* the eleven key codes with a button, as the numbers the kernel sends
MappedButtons ==
    {<<304, "A">>, <<305, "B">>, <<307, "X">>, <<308, "Y">>, <<310, "TL">>,
     <<311, "TR">>, <<314, "SELECT">>, <<315, "START">>, <<316, "MODE">>,
     <<317, "THUMBL">>, <<318, "THUMBR">>}
MappedAxes == {0, 1, 2, 3, 4, 5, 16, 17}

\* the call handed nothing to the handler and left the reader in the Normal state
Quiet == call.emitted = <<>> /\ ~current_gamepad.recovering_from_dropped

KeysAndUnknownCodes ==
    /\ DecodedNormally(EV_KEY) =>
          IF call.event.value = 1 /\ \E m \in MappedButtons : m[1] = call.event.code
          THEN /\ \E m \in MappedButtons :
                     /\ m[1] = call.event.code
                     /\ call.emitted = <<ButtonPressed(m[2])>>
               /\ ~current_gamepad.recovering_from_dropped
          ELSE Quiet
    /\ DecodedNormally(EV_ABS) /\ call.event.code \notin MappedAxes => Quiet

IsNormalCall == call.fn = "Gamepad::read_events" /\ ~call.recovering

\* C27, as stated: in the Normal state a key event emits ButtonPressed(b) only
\* with value 1 and one of the eleven mapped codes; the other key events, unknown
\* key and axis codes and every event of a type other than key and absolute axis
\* emit nothing and leave the reader state as it was.
C27_OnlyKeyDownEmits ==
    /\ KeysAndUnknownCodes
    /\ IsNormalCall /\ call.event.type \notin {EV_KEY, EV_ABS} => Quiet

\* C27, amended: the same, except that SYN_DROPPED, which also emits nothing,
\* moves the reader to the recovering state.
C27_OnlyKeyDownEmitsDroppedApart ==
    /\ KeysAndUnknownCodes
    /\ IsNormalCall /\ call.event.type \notin {EV_KEY, EV_ABS} =>
          /\ call.emitted = <<>>
          /\ current_gamepad.recovering_from_dropped
                 <=> (call.event.type = 0 /\ call.event.code = 3)

\* a held key repeated (value 2) on a mapped code, and nothing came out
C27_Witness ==
    /\ IsNormalCall
    /\ call.event = InputEvent(EV_KEY, BTN_THUMBR, 2)
    /\ Quiet


-----------------------------------------------------------------------------
(* Properties of the signal manager.                                       *)

\* how many records at the head of `records` carry a signal outside `known`
RECURSIVE LeadingOthers(_, _)
LeadingOthers(records, known) ==
    IF records = <<>> \/ Head(records) \in known THEN 0
    ELSE 1 + LeadingOthers(Tail(records), known)

\* C28: next_signal returns Terminate for SIGTERM and for SIGINT and
\* ReloadConfiguration for SIGHUP; a record with any other signal number is
\* consumed and discarded, and next_signal goes on with the record after it
\* without returning.
C28_NextSignalMapping ==
    call.fn = "next_signal" /\ call.fault = "none" =>
        LET k == LeadingOthers(call.pending, {SIGTERM, SIGINT, SIGHUP})
            r == call.result
        IN  IF k < Len(call.pending)
            THEN /\ r.kind = "intention"
                 /\ call.pending[k + 1] \in {SIGTERM, SIGINT} => r.intention = "Terminate"
                 /\ call.pending[k + 1] = SIGHUP => r.intention = "ReloadConfiguration"
                 /\ r.consumed = k + 1
                 /\ call.left = SubSeq(call.pending, k + 2, Len(call.pending))
            ELSE /\ r.kind = "blocked"
                 /\ r.consumed = k
                 /\ call.left = <<>>

\* two records of unmanaged signals were discarded ahead of a SIGHUP, and the
\* SIGTERM behind it is still to be read
C28_Witness ==
    /\ call.fn = "next_signal"
    /\ call.fault = "none"
    /\ Len(call.pending) = 4
    /\ call.pending[1] \in OtherSignals
    /\ call.pending[2] \in OtherSignals
    /\ call.pending[3] = SIGHUP
    /\ call.result.kind = "intention"
    /\ call.result.intention = "ReloadConfiguration"
    /\ call.left = <<SIGTERM>>
    /\ sigPending = <<SIGTERM>>


-----------------------------------------------------------------------------
(* Properties of a tick that reads SIGHUP.                                 *)

\* the tick under way has read SIGHUP at its poll
ReloadObserved == tick.signal = "ReloadConfiguration"

\* the tick under way found no signal at its poll
NothingObserved == tick.fault = "none" /\ tick.signal = "blocked"

\* a tick that has read SIGHUP does not conclude the run loop: it goes on to
\* the drain, the command and the writes, and returns KeepGoing when all eight
\* writes succeed
ReloadTickGoesOn ==
    ReloadObserved =>
        /\ tick.signo = SIGHUP
        /\ blockResult # "Conclude"
        /\ tick.steps = <<"poll">> => pc = "input"
        /\ tick.steps = TickOrder /\ tick.okWrites = WritesPerCommand =>
               /\ blockResult = "KeepGoing"
               /\ Len(i2cLog) = WritesPerCommand

\* a tick that found no signal goes on past its poll as well
QuietTickGoesOn ==
    NothingObserved /\ tick.steps = <<"poll">> => pc = "input"

\* C29 as stated: a tick that observes ReloadConfiguration drains the gamepad
\* events, computes the command, writes both PWM channels and returns KeepGoing,
\* exactly as a tick with no signal does; SIGHUP never ends the run loop.
C29_ReloadTickAsQuietTick == ReloadTickGoesOn /\ QuietTickGoesOn


-----------------------------------------------------------------------------
(* Properties of the open attempts.                                        *)

SetOf(seq) == {seq[i] : i \in 1..Len(seq)}

\* the attempts that failed: all but the one that gave the reader held now
FailedAttempts ==
    IF current_gamepad.held THEN SubSeq(call.tried, 1, Len(call.tried) - 1)
    ELSE call.tried

\* C30: while no reader is held and the queue of k >= 1 paths is left alone by
\* folder events, every read_events call makes exactly one open attempt and
\* returns Ok, any k consecutive failed attempts go to k different paths, that
\* is to each queued path once, a failed open leaves the contents of the queue
\* as they were, and a queued device that has become openable is opened within k
\* further calls.
C30_AttemptsGoRound ==
    LET k == Len(call.queue)
    IN  k >= 1 =>
          /\ call.oks
          /\ Len(call.tried) = call.calls
          /\ SetOf(call.tried) \subseteq SetOf(call.queue)
          /\ \A i \in 1..Len(FailedAttempts) :
               \A j \in 1..Len(FailedAttempts) :
                  i < j /\ j < i + k => FailedAttempts[i] # FailedAttempts[j]
          /\ Len(gamepad_devices) = k
          /\ SetOf(gamepad_devices) = SetOf(call.queue)
          /\ \A p \in SetOf(call.queue) :
               /\ call.since[p] <= k
               /\ ~current_gamepad.held => call.since[p] < k

\* three queued devices failed twice around, the one that became openable right
\* after its second failure was opened by the third call after that
C30_Witness ==
    /\ Len(call.queue) = 3
    /\ current_gamepad.held
    /\ Len(FailedAttempts) >= 5
    /\ call.since[current_gamepad.path] = 3
    /\ \A p \in SetOf(call.queue) \ {current_gamepad.path} : call.since[p] = 0


-----------------------------------------------------------------------------
(* Properties of one call of process_filesystem_events.                    *)

\* the step is a call that read records from the inotify descriptor
FolderCallRead == Len(det'.records) > Len(det.records)

\* the records of the call are the oldest ones queued, in the order queued
ReadOldestFirst ==
    FolderCallRead =>
        /\ IsPrefix(SubSeq(det'.records, Len(det.records) + 1, Len(det'.records)),
                    inotifyQ)
        /\ det'.records = det.records \o SubSeq(inotifyQ, 1, Len(inotifyQ) - Len(inotifyQ'))

\* every call takes the oldest records and hands them over in their order
CallsReadOldestFirst == [][ReadOldestFirst]_vars

\* C31 as stated: a call of process_filesystem_events delivers every record
\* that is ready on the inotify descriptor when it is made, in the order the
\* kernel queued them, so that none of them is left on the descriptor when the
\* call returns Ok.
C31_CallDeliversAllReady ==
    [][ReadOldestFirst /\ (FolderCallRead => inotifyQ' = <<>>)]_vars


-----------------------------------------------------------------------------
(* Properties of the parse of inotify records.                             *)

\* what one record is to deliver, by its mask and name
ExpectedOfRecord(rec) ==
    LET path == [folder |-> "/dev/input/", name |-> rec.name]
        has(flags) == rec.mask \cap flags # {}
    IN  (IF has({"IN_Q_OVERFLOW"}) THEN <<[kind |-> "EventQueueOverflowed"]>> ELSE <<>>)
        \o (IF rec.name = <<>> THEN <<>>
            ELSE IF has({"IN_CREATE", "IN_MOVED_TO"}) THEN <<[kind |-> "Added", path |-> path]>>
            ELSE IF has({"IN_DELETE", "IN_MOVED_FROM"}) THEN <<[kind |-> "Removed", path |-> path]>>
            ELSE IF has({"IN_ATTRIB"}) THEN <<[kind |-> "AttributesChanged", path |-> path]>>
            ELSE <<>>)

\* header of 16 bytes and the name with its NUL in a field of 0, 16 or 32 bytes
SizeOfRecord(rec) ==
    16 + (IF rec.name = <<>> THEN 0 ELSE IF Len(rec.name) < 16 THEN 16 ELSE 32)

ParsedData ==
    call.fn = "process_filesystem_events" /\ call.read.kind = "data"

\* C32: the records of a read are taken in buffer order; a mask with the
\* queue-overflow bit delivers EventQueueOverflowed whatever its other bits and
\* its name; a record with a name delivers exactly one of Added (create, moved
\* to), else Removed (delete, moved from), else AttributesChanged (attribute),
\* else nothing, with the watched directory joined with the name as path; the
\* parse advances by the header size plus the name length and ends having
\* consumed exactly the bytes read.
C32_RecordParse ==
    ParsedData =>
        LET records == call.read.records
            expected[i \in 0..Len(records)] ==
                IF i = 0 THEN <<>> ELSE expected[i - 1] \o ExpectedOfRecord(records[i])
            bytes[i \in 0..Len(records)] ==
                IF i = 0 THEN 0 ELSE bytes[i - 1] + SizeOfRecord(records[i])
        IN  /\ call.result.ok
            /\ call.result.events = expected[Len(records)]
            /\ call.result.bytes_read = bytes[Len(records)]
            /\ call.result.offset = bytes[Len(records)]

\* an overflow record that also carries a creation and a name, ahead of a record
\* with a long name whose mask asks for removal and attribute change
C32_Witness ==
    /\ ParsedData
    /\ call.read.records
           = <<InotifyRecord({"IN_Q_OVERFLOW", "IN_CREATE"}, js0),
               InotifyRecord({"IN_MOVED_FROM", "IN_ATTRIB"}, LongName)>>
    /\ call.result.events
           = <<EventQueueOverflowed, Added(PathJoin(GAMEPAD_DEVICE_FOLDER, js0)),
               Removed(PathJoin(GAMEPAD_DEVICE_FOLDER, LongName))>>
    /\ call.result.offset = 80



-----------------------------------------------------------------------------
(* Properties of AnyGamepad::read_events, step by step.                    *)

\* the step is a read_events call, and these are the inotify records it read
ReadStep == call' # call \/ det' # det
RecordsOfStep == SubSeq(det'.records, Len(det.records) + 1, Len(det'.records))

\* a record of a change of attributes, or of the creation of something that is
\* no gamepad device file: a name other than js-evdev and digits, or a directory
IsAttribRecord(rec) ==
    rec.name # <<>> /\ rec.mask \cap {"IN_CREATE", "IN_MOVED_TO", "IN_DELETE", "IN_MOVED_FROM", "IN_Q_OVERFLOW"} = {}
                    /\ "IN_ATTRIB" \in rec.mask
IsIneligibleAdd(rec) ==
    /\ rec.name # <<>>
    /\ "IN_Q_OVERFLOW" \notin rec.mask
    /\ rec.mask \cap {"IN_CREATE", "IN_MOVED_TO"} # {}
    /\ rec.name = event0 \/ files[rec.name] = "dir"

\* the open attempt a call makes by itself: the next path of the queue, when no
\* reader is held at its start
AttemptsAsWithoutEvents ==
    call'.tried.some <=> (~current_gamepad.held /\ gamepad_devices # <<>>)

\* a reader held at the start of the call is kept, unless its read fails
HeldReaderKept ==
    current_gamepad.held /\ call'.gamepad # "error" =>
        /\ current_gamepad'.held
        /\ current_gamepad'.path = current_gamepad.path

\* C33: an AttributesChanged event leaves the queue of the detector as it was,
\* contents and order, and neither causes an open attempt nor touches a held
\* reader; an Added event for a path that is no gamepad device file (its name
\* does not match ^js-evdev\d*$, or it is a directory) leaves the queue as it was
\* too.
C33_AttributesAndIneligibleIgnored ==
    [][ReadStep /\ call'.ok /\ RecordsOfStep # <<>>
         /\ (\A i \in 1..Len(RecordsOfStep) :
                IsAttribRecord(RecordsOfStep[i]) \/ IsIneligibleAdd(RecordsOfStep[i]))
       => /\ call'.updated = gamepad_devices
          /\ AttemptsAsWithoutEvents
          /\ HeldReaderKept
          /\ current_gamepad.held => gamepad_devices' = gamepad_devices]_vars

\* with a reader held on the first of two queued devices, a call has read the
\* creation of a directory with a device name and a change of attributes, and
\* queue and reader are as before
C33_Witness ==
    /\ call.fn = "AnyGamepad::read_events"
    /\ call.folder = "data"
    /\ Len(det.records) = 3
    /\ det.records[2] = InotifyRecord({"IN_CREATE", "IN_ISDIR"}, js1)
    /\ det.records[3] = InotifyRecord({"IN_ATTRIB"}, js0)
    /\ inotifyQ = <<>>
    /\ current_gamepad.held
    /\ call.tried = NoPath
    /\ gamepad_devices = <<PathJoin(GAMEPAD_DEVICE_FOLDER, js0)>>
    /\ call.updated = gamepad_devices


\* a reader appears only in a call that tried its path, and the device file was
\* there to open
ReaderOnlyFromOpen ==
    ~current_gamepad.held /\ current_gamepad'.held =>
        /\ ReadStep
        /\ call'.tried.some
        /\ current_gamepad'.path = call'.tried.path
        /\ files[file_name(current_gamepad'.path)] = "chr"

\* with a reader held no path is asked of the detector: none is tried, the queue
\* is what process_updates left, and the reader is the same one or none
HeldMeansNoNextDevice ==
    current_gamepad.held /\ ReadStep =>
        /\ call'.tried = NoPath
        /\ call'.ok => gamepad_devices' = call'.updated
        /\ current_gamepad'.held => current_gamepad'.path = current_gamepad.path

\* C37: the orchestrator holds at most one reader, and holds one only after a
\* successful open; while a reader is held read_events does not call
\* next_gamepad_device, so the queue is not rotated and no other device is opened
\* until that reader is dropped.
C37_OneReaderNoRotationWhileHeld ==
    [][/\ ReaderOnlyFromOpen
       /\ HeldMeansNoNextDevice
       /\ ~ReadStep => current_gamepad' = current_gamepad]_vars

\* with the reader of js-evdev0 held and a second device queued behind it, a call
\* has processed a folder event, tried no path and left the queue in its order
C37_Witness ==
    /\ call.fn = "AnyGamepad::read_events"
    /\ call.folder = "data"
    /\ call.tried = NoPath
    /\ current_gamepad.held
    /\ current_gamepad.path = PathJoin(GAMEPAD_DEVICE_FOLDER, js0)
    /\ gamepad_devices = <<PathJoin(GAMEPAD_DEVICE_FOLDER, js0),
                           PathJoin(GAMEPAD_DEVICE_FOLDER, js1)>>
    /\ call.updated = gamepad_devices


\* a record that takes the device file of this name from the queue: an overflow
\* of the inotify queue, or the deletion or the moving away of the name
IsRemovalRecord(rec, name) ==
    \/ "IN_Q_OVERFLOW" \in rec.mask
    \/ /\ rec.name = name
       /\ rec.mask \cap {"IN_CREATE", "IN_MOVED_TO"} = {}
       /\ rec.mask \cap {"IN_DELETE", "IN_MOVED_FROM"} # {}
RemovalRead(path) ==
    \E i \in 1..Len(RecordsOfStep) : IsRemovalRecord(RecordsOfStep[i], file_name(path))

\* a reader held at the start of a call is read in it, and is let go only by a
\* failed read: whatever the folder events of the call do to the queue
ReaderOutlivesQueue ==
    current_gamepad.held /\ ReadStep /\ call'.ok =>
        /\ call'.gamepad # "none"
        /\ call'.gamepad = "error" <=> ~current_gamepad'.held
        /\ current_gamepad'.held => current_gamepad' = current_gamepad
        /\ gamepad_devices' = call'.updated

\* the path of a reader stays queued: where it was opened, and through every
\* call that reads no removal of it, the one that lets go of the reader included
ReaderPathStaysQueued ==
    /\ ~ReadStep => gamepad_devices' = gamepad_devices
    /\ ReadStep /\ ~current_gamepad.held /\ current_gamepad'.held =>
         Contains(gamepad_devices', current_gamepad'.path)
    /\ ReadStep /\ call'.ok /\ current_gamepad.held
         /\ Contains(gamepad_devices, current_gamepad.path)
         /\ ~RemovalRead(current_gamepad.path) =>
         Contains(gamepad_devices', current_gamepad.path)

\* C38: a Removed event for the path of the held reader, or an
\* EventQueueOverflowed event, changes the device queue only: the reader is kept
\* and read on, and is dropped only when one of its reads fails; and the path of
\* a held reader stays in the queue through open, read and disconnect unless a
\* Removed or an overflow event takes it out.
C38_RemovalChangesOnlyQueue ==
    [][ReaderOutlivesQueue /\ ReaderPathStaysQueued]_vars

\* the node of the held reader's device was unlinked: the call that read the
\* record emptied the queue, kept the reader and handed on an event it read
C38_Witness ==
    /\ call.fn = "AnyGamepad::read_events"
    /\ call.folder = "data"
    /\ Len(det.records) = 1
    /\ det.records[1] = InotifyRecord({"IN_DELETE"}, js0)
    /\ call.updated = <<>>
    /\ gamepad_devices = <<>>
    /\ current_gamepad.held
    /\ current_gamepad.path = PathJoin(GAMEPAD_DEVICE_FOLDER, js0)
    /\ call.gamepad = "data"
    /\ Len(call.events) = 1


\* the call's read of its reader failed
ReadFailed == ReadStep /\ call'.gamepad = "error"
DisconnectedCount(events) ==
    Cardinality({i \in 1..Len(events) : events[i] = Disconnected})

\* a failed read hands the handler Disconnected and nothing else, and the reader
\* is let go
FailedReadDelivery ==
    ReadFailed => call'.events = <<Disconnected>> /\ ~current_gamepad'.held

\* Disconnected comes with a failed read only, once, and a call that neither
\* held a reader at its start nor tried a path has no reader to read and hands
\* on nothing
DisconnectedOncePerLostReader ==
    ReadStep =>
        /\ DisconnectedCount(call'.events) = IF call'.gamepad = "error" THEN 1 ELSE 0
        /\ ~current_gamepad.held /\ ~call'.tried.some =>
             call'.events = <<>> /\ call'.gamepad = "none"

\* the call after a failed read is the one that asks the detector for a path
AttemptInFollowingCall ==
    call.fn = "AnyGamepad::read_events" /\ call.gamepad = "error"
      /\ ReadStep /\ call'.ok =>
        /\ ~current_gamepad.held
        /\ call'.tried.some <=> call'.updated # <<>>

\* no path is tried in any call whose read fails
C39_FailedReadOnlyDisconnects ==
    [][/\ FailedReadDelivery
       /\ ReadFailed => call'.tried = NoPath
       /\ DisconnectedOncePerLostReader
       /\ AttemptInFollowingCall]_vars

\* C39: in a read_events call in which the read of the reader held at the start
\* of the call fails, the handler receives Disconnected and nothing else, and no
\* open attempt is made in that call; a reader opened in a call can fail its
\* first read in the same call, which then has made an open attempt and delivers
\* Disconnected alone.  Disconnected is delivered once per lost reader and never
\* when no reader was held at the start of the read step; the next open attempt
\* happens in the following call.
C39_FailedReadOfHeldReader ==
    [][/\ FailedReadDelivery
       /\ ReadFailed /\ current_gamepad.held => call'.tried = NoPath
       /\ ReadFailed /\ ~current_gamepad.held => call'.tried.some
       /\ DisconnectedOncePerLostReader
       /\ AttemptInFollowingCall]_vars

\* the read of the held reader has failed in a call that tried no path: the
\* handler got Disconnected alone, no reader is left, and its path is still queued
C39_Witness ==
    /\ call.fn = "AnyGamepad::read_events"
    /\ call.gamepad = "error"
    /\ call.tried = NoPath
    /\ call.events = <<Disconnected>>
    /\ ~current_gamepad.held
    /\ gamepad_devices = <<PathJoin(GAMEPAD_DEVICE_FOLDER, js0)>>


-----------------------------------------------------------------------------
(* Two commands executed one after the other.                              *)

\* both the command before and this one were executed to the end
ExecutedTwice ==
    /\ pc = "blockDone" /\ blockResult = "KeepGoing"
    /\ prevExec.valid

-----------------------------------------------------------------------------
(* The prescaler of the PCA9685.                                            *)

\* k is the integer nearest to 25000000 / (4096 * f)
IsNearest(k, f) ==
    LET diff == 25000000 - 4096 * f * k
    IN  2 * (IF diff < 0 THEN -diff ELSE diff) <= 4096 * f

PrescaleWrites ==
    {i \in 1..Len(initLog) :
        "reg" \in DOMAIN initLog[i] /\ initLog[i].reg = REGISTER_PRESCALE}

\* C35: prescale_value_for_frequency(f) returns round(25000000 / (4096 * f)) - 1,
\* which is 121 for f = 50, and panics instead of returning when that value is
\* below 3 or above 255, so the value written to PRESCALE is always within
\* 0x03..0xFF.
C35_PrescaleValue ==
    call.fn = "PCA9685Driver::new" =>
        LET f == call.frequency
            value == call.prescale.value
        IN  /\ f > 0 => IsNearest(value + 1, f)
            /\ f = 50 => value = 121 /\ ~call.prescale.panic
            /\ f > 0 => (call.prescale.panic <=> (value < 3 \/ value > 255))
            /\ pc = "panic" => call.prescale.panic /\ PrescaleWrites = {}
            /\ call.prescale.panic => pc # "ctorEsc" /\ PrescaleWrites = {}
            /\ \A i \in PrescaleWrites :
                 /\ initLog[i].value = value
                 /\ initLog[i].value >= 3 /\ initLog[i].value <= 255

\* the driver was constructed at 24 Hz, the lowest frequency that passes: 253
\* went to PRESCALE as the third write
C35_Witness ==
    /\ call.fn = "PCA9685Driver::new"
    /\ call.frequency = 24
    /\ pc = "ctorEsc"
    /\ Len(initLog) = 5
    /\ initLog[3] = Write(REGISTER_PRESCALE, 253)
    /\ PrescaleWrites = {3}


-----------------------------------------------------------------------------
(* What panics and what is returned as an error.                           *)

InRange(v) == v.n >= -v.d /\ v.n <= v.d

\* the three checks that panic: a sleep that returns other than 0, a command out
\* of [-1, 1] x [-1, 1], a prescaler out of 3..255
ChecksThatPanic ==
    /\ call.fn = "sleep_until" => (call.outcome = "panic" <=> call.result # 0)
    /\ call.fn = "LocomotionCommand::new" =>
         (call.outcome = "panic" <=> ~(InRange(call.throttle) /\ InRange(call.direction)))
    /\ call.fn = "prescale_value_for_frequency" =>
         (call.outcome = "panic" <=>
             (call.frequency = 0 \/ call.value < 3 \/ call.value > 255))

ShortSignalRead == call.fn = "next_signal" /\ call.fault = "short"

\* a short read of the signal descriptor panics, as the three checks do
C36_ShortSignalReadPanics ==
    /\ ShortSignalRead => call.outcome = "panic"
    /\ ChecksThatPanic

\* C36: a read of the signal descriptor that returns fewer bytes than one
\* signal-info record does not panic: next_signal returns it as an error, as it
\* does a failed read.  A non-zero return of the absolute sleep, the construction
\* of a command out of range and a prescaler out of range panic.
C36_ShortSignalReadIsError ==
    /\ ShortSignalRead => call.outcome = "error"
    /\ call.fn = "next_signal" =>
         (call.outcome = "error" <=> call.fault \in {"failed", "short"})
    /\ ChecksThatPanic

\* a read of the signal descriptor was short while a record was pending, and the
\* call returned an error
C36_Witness ==
    /\ ShortSignalRead
    /\ call.pending = <<SIGHUP>>
    /\ call.outcome = "error"


-----------------------------------------------------------------------------
(* The deadline and the start of the iterations of start_runloop.          *)

\* an iteration starts: the loop reaches block()
IterationStarts == pc # "block" /\ pc' = "block"

\* the KeepGoing arm is taken by an iteration that ended by its new deadline, or
\* after it
DecidesInTime ==
    /\ pc = "blockDone" /\ blockResult = "KeepGoing"
    /\ clock <= start_of_upcoming_iteration + RUNLOOP_INTERVAL
DecidesOverrun ==
    /\ pc = "blockDone" /\ blockResult = "KeepGoing"
    /\ clock > start_of_upcoming_iteration + RUNLOOP_INTERVAL

RunloopStep == runloopVars' # runloopVars

\* C40: in start_runloop the deadline never decreases; the first iteration runs
\* at once, without a sleep; every later iteration starts at a time of the
\* monotonic clock at or after the deadline of then: after an iteration that
\* did not overrun the loop sleeps until the deadline, after an overrun the
\* deadline is the time already reached.
C40_IterationsStartAtDeadline ==
    [][/\ start_of_upcoming_iteration' >= start_of_upcoming_iteration
       /\ pc = "start" /\ RunloopStep =>
            /\ pc' = "block" /\ clock' = clock
            /\ start_of_upcoming_iteration' = clock
       /\ IterationStarts => clock' >= start_of_upcoming_iteration'
       /\ IterationStarts /\ pc # "start" => pc \in {"sleep", "blockDone"}
       /\ DecidesInTime /\ RunloopStep =>
            /\ pc' = "sleep"
            /\ start_of_upcoming_iteration' = start_of_upcoming_iteration + RUNLOOP_INTERVAL
       /\ pc = "sleep" /\ RunloopStep =>
            /\ pc' = "block"
            /\ clock >= start_of_upcoming_iteration
            /\ start_of_upcoming_iteration' = start_of_upcoming_iteration
       /\ DecidesOverrun /\ RunloopStep =>
            /\ pc' = "block"
            /\ start_of_upcoming_iteration' = clock
            /\ clock' = clock]_vars

\* after two decisions, the second with a sleep that lasted beyond its deadline,
\* the third iteration starts late
C40_Witness ==
    /\ pc = "block"
    /\ sched.decisions = 2
    /\ sched.slept
    /\ clock > start_of_upcoming_iteration
    /\ start_of_upcoming_iteration > sched.startTime

=============================================================================
